---- MODULE Spec2Model ----
(***************************************************************************)
(* A model of the streaming ingestion layer (backend/core/data_engine.py)  *)
(* and of the Symmetry strategy engine (backend/symmetry_engine/*.py,      *)
(* backend/brain/SymmetryAnalyzer.py).                                     *)
(*                                                                         *)
(* Each component is a state machine with a specification of its own,     *)
(* over its own group of variables and those of the components it calls:  *)
(*   SpecExec    ExecutionEngine: execute_signal / close_position          *)
(*   SpecFlush   tick_buffer, flush_tick_buffer and its worker threads     *)
(*   SpecFlushLive  the same, with threads that keep running               *)
(*   SpecTick    on_message: deduplication and volume-delta reconstruction *)
(*   SpecIngest  on_message: messages that meet an exception               *)
(*   SpecCandle  TradingBot.aggregate_and_process: 1m and 5m candles       *)
(*   SpecRef     reference levels: identify_swing + save_reference_level   *)
(*   SpecSignal  signal emission on the live path: handle_tick and         *)
(*               StrategyEngine.generate_signals                           *)
(*   SpecGuard   the same path with ticks one second apart: the guardrails *)
(*   SpecTrail   StrategyEngine.check_exit_condition: trailing stop        *)
(*   SpecSub     subscription rooms and upstream (un)subscription          *)
(*   SpecRisk    RiskManager.can_trade in the Backtester's entry block     *)
(*   SpecSwing   identify_swing of the strategy engine and of the analyzer *)
(*   SpecLeg     the leg prices stored with a confirmed swing              *)
(*   SpecEmit    emit_event over the rooms consumers subscribed to         *)
(*   SpecBroadcast  on_message: the rooms an instrument's events go to     *)
(*   SpecOi      handle_tick on ticks with and without open interest       *)
(*   SpecPrimary on_message: chart_update messages of several intervals    *)
(*   SpecLiveExit  the Exits block of TradingBot.aggregate_and_process     *)
(*   SpecRace    on_message called by two provider threads at once         *)
(*   SpecAlign   aggregate_and_process over two 5-minute boundaries        *)
(* A specification leaves the groups it does not use at their idle values. *)
(*                                                                         *)
(* Numbers: Python floats are modelled by exact integers in a fixed unit;  *)
(* each group states its unit.  None is the Python None.                   *)
(***************************************************************************)
EXTENDS Integers, Sequences, FiniteSets, TLC

\* The Python None, where a string stands for the value.
None == "None"

\* A Python dict is a function whose DOMAIN is the set of keys present.
DictPut(d, k, v) == [x \in DOMAIN d \cup {k} |-> IF x = k THEN v ELSE d[x]]

DictPop(d, k) == [x \in DOMAIN d \ {k} |-> d[x]]

EmptyDict == [x \in {} |-> 0]

Max(a, b) == IF a >= b THEN a ELSE b

Min(a, b) == IF a <= b THEN a ELSE b

Abs(a) == IF a >= 0 THEN a ELSE 0 - a

VARIABLES
    \* ---- ExecutionEngine (symmetry_engine/execution.py)
    positions,      \* self.positions: dict index_name -> position record
    trades,         \* the trades table: sequence of Trade rows, row id = position in it
    balance,        \* self.balance - initial_balance, in units of 1/MoneyScale rupee
    last_call,      \* the last ExecutionEngine call and what it returned
    \* ---- batch persister (core/data_engine.py)
    tick_buffer,    \* tick_buffer: the live buffer, a sequence of blocks of ticks
    workers,        \* the threads running flush_tick_buffer: name -> [pc, to_insert, attempt, result]
    persisted,      \* the ticks db.insert_ticks has stored, in insertion order
    appended,       \* the number of ticks on_message has appended to tick_buffer so far
    messages,       \* the number of on_message calls so far
    \* ---- on_message (core/data_engine.py)
    now,                    \* time.time() * 1000, the wall clock
    last_processed_tick,    \* last_processed_tick: dict instrumentKey -> [ts_ms, price, volume]
    latest_total_volumes,   \* latest_total_volumes: dict tracker_key -> cumulative volume
    message,                \* the message of the last on_message call
    sym_feeds,              \* sym_feeds of the last on_message call: dict instrumentKey -> tick
    prev_total_volumes,     \* history: latest_total_volumes as the last on_message call found it
    on_message_result,      \* history: how the last on_message call ended
    \* ---- TradingBot.aggregate_and_process (symmetry_engine/main.py)
    wall_minute,        \* datetime.now() truncated to the minute
    candle_buffers,     \* self.candle_buffers: dict buffer_key -> the open 1m bucket
    candle_buffers_5m,  \* self.candle_buffers_5m: dict buffer_key -> the open 5m bucket
    candle_history,     \* engine.candle_history: dict instrument_key -> list of 1m bars
    candle_history_5m,  \* engine.candle_history_5m: dict instrument_key -> list of 5m bars
    candle_ticks,       \* the number of aggregate_and_process calls so far
    \* ---- reference levels (symmetry_engine/strategy.py, brain/SymmetryAnalyzer.py)
    reference_levels,   \* StrategyEngine.reference_levels: 'High'/'Low' -> optional level
    analyzer_levels,    \* SymmetryAnalyzer.reference_levels: 'High'/'Low' -> optional level
    ref_rows,           \* the reference_levels table: the rows added, in order
    last_swing,         \* history: what the last call that found a swing was given
    swing_count,        \* the number of identify_swing calls that found a swing
    \* ---- the live signal path (symmetry_engine/main.py, strategy.py)
    current_data,       \* engine.current_data: dict instrument_key -> [ltp, oi, oi_delta]
    oi_cache,           \* data_provider.oi_cache: dict instrument_key -> last open interest
    signal_clock,       \* datetime.now(), in seconds
    signals_emitted,    \* history: the Signals generate_signals returned, with their time
    signal_ticks,       \* the number of handle_tick calls so far
    voided,             \* history: the sides whose Signal the guardrails voided on the last tick
    \* ---- the trailing stop (symmetry_engine/strategy.py, backtester.py)
    trailing_sl,        \* engine.trailing_sl.get(index_name): << >> for None, or <<stop>>
    atr_multiplier,     \* engine.atr_multiplier, as a number of halves
    evaluated,          \* history: the open position has had an exit evaluation
    last_exit_check,    \* history: the last check_exit_condition call and what it left
    exit_checks,        \* the number of exit evaluations so far
    \* ---- subscription rooms (core/data_engine.py, core/symbol_mapper.py, main.py)
    room_subscribers,   \* room_subscribers: dict (instrumentKey, interval) -> set of sids
    reverse_cache,      \* symbol_mapper: the names resolve_to_key resolves, hrn -> key
    bot_details,        \* TradingBot.instruments.get('NIFTY'): << >> or <<details>>
    last_sub_call,      \* history: the last subscription call and the provider calls it made
    \* ---- risk gate (symmetry_engine/risk_manager.py, backtester.py)
    bt_index_name,      \* Backtester.index_name, None before the Backtester is built
    risk_manager,       \* the RiskManager: [daily_pnl, current_date], current_date << >> for None
    bar_date,           \* current_time.date() of the bar being replayed, as a day number
    day_realized,       \* history: the sum of trade.pnl of the positions closed on bar_date
    last_can_trade,     \* history: the last can_trade call: [date, count, ret]
    \* ---- identify_swing (symmetry_engine/strategy.py, brain/SymmetryAnalyzer.py)
    swing_call,         \* the last identify_swing call: who was called, the index bars, the type returned
    \* ---- leg prices of a reference level (main.py db_ops, SymmetryAnalyzer.analyze)
    leg_call,           \* history: the last swing confirmed: by whom, its type, the closes of the two options at candle ppp
    \* ---- broadcasting (data_engine.py emit_event)
    socketio_instance,  \* the Socket.IO server set_socketio installed, or None
    main_event_loop,    \* the event loop set_socketio was given: None, "stopped" or "running"
    emit_calls,         \* history: the number of emit_event calls made
    last_emit,          \* history: the last emit_event call: its room, what it found, whether it sent
    \* ---- the rooms of one instrument (data_engine.py on_message)
    last_broadcast,     \* history: the last event on_message broadcast: its rooms and the rooms it was sent to
    \* ---- ticks without open interest (main.py handle_tick, strategy.py _process_signal_side)
    oi_missing,         \* the instruments whose current_data entry holds 'oi': None
    last_generate,      \* history: the last handle_tick: how it ended and what the Bullish side had earned
    \* ---- on_message called by two provider threads (data_engine.py on_message)
    feed_threads        \* the on_message call of each provider thread: its feed, its position, its locals

execVars == <<positions, trades, balance, last_call>>

flushVars == <<tick_buffer, workers, persisted, appended, messages>>

tickVars == <<now, last_processed_tick, latest_total_volumes, message, sym_feeds,
              prev_total_volumes, on_message_result>>

candleVars == <<wall_minute, candle_buffers, candle_buffers_5m, candle_history,
                candle_history_5m, candle_ticks>>

refVars == <<reference_levels, analyzer_levels, ref_rows, last_swing, swing_count>>

signalVars == <<current_data, oi_cache, signal_clock, signals_emitted, signal_ticks,
               voided>>

trailVars == <<trailing_sl, atr_multiplier, evaluated, last_exit_check, exit_checks>>

subVars == <<room_subscribers, reverse_cache, bot_details, last_sub_call>>

riskVars == <<bt_index_name, risk_manager, bar_date, day_realized, last_can_trade>>

swingVars == <<swing_call>>

legVars == <<leg_call>>

emitVars == <<socketio_instance, main_event_loop, emit_calls, last_emit>>

bcastVars == <<last_broadcast>>

oiVars == <<oi_missing, last_generate>>

raceVars == <<feed_threads>>

vars == <<execVars, flushVars, tickVars, candleVars, refVars, signalVars, trailVars, subVars, riskVars, swingVars, legVars, emitVars, bcastVars, oiVars, raceVars>>

\* What a step of one component leaves alone: the state of the others.
nonExecVars == <<flushVars, tickVars, candleVars, refVars, signalVars, trailVars, subVars, riskVars, swingVars, legVars, emitVars, bcastVars, oiVars, raceVars>>

nonFlushVars == <<execVars, tickVars, candleVars, refVars, signalVars, trailVars, subVars, riskVars, swingVars, legVars, emitVars, bcastVars, oiVars, raceVars>>

nonTickVars == <<execVars, persisted, candleVars, refVars, signalVars, trailVars, subVars, riskVars, swingVars, legVars, emitVars, bcastVars, oiVars, raceVars>>

nonCandleVars == <<execVars, flushVars, tickVars, refVars, signalVars, trailVars, subVars, riskVars, swingVars, legVars, emitVars, bcastVars, oiVars, raceVars>>

nonRefVars == <<execVars, flushVars, tickVars, candleVars, signalVars, trailVars, subVars, riskVars, swingVars, legVars, emitVars, bcastVars, oiVars, raceVars>>

nonSignalVars == <<execVars, flushVars, tickVars, candleVars, refVars, trailVars, subVars, riskVars, swingVars, legVars, emitVars, bcastVars, oiVars, raceVars>>

nonSubVars == <<execVars, flushVars, tickVars, candleVars, refVars, signalVars, trailVars, riskVars, swingVars, legVars, emitVars, bcastVars, oiVars, raceVars>>

nonRiskVars == <<execVars, flushVars, tickVars, candleVars, refVars, signalVars, trailVars, subVars, swingVars, legVars, emitVars, bcastVars, oiVars, raceVars>>

nonSwingVars == <<execVars, flushVars, tickVars, candleVars, refVars, signalVars, trailVars, subVars, riskVars, legVars, emitVars, bcastVars, oiVars, raceVars>>

nonLegVars == <<execVars, flushVars, tickVars, candleVars, refVars, signalVars, trailVars, subVars, riskVars, swingVars, emitVars, bcastVars, oiVars, raceVars>>

nonRefLegVars == <<execVars, flushVars, tickVars, candleVars, signalVars, trailVars, subVars, riskVars, swingVars, emitVars, bcastVars, oiVars, raceVars>>

nonEmitVars == <<execVars, flushVars, tickVars, candleVars, refVars, signalVars, trailVars, subVars, riskVars, swingVars, legVars, bcastVars, oiVars, raceVars>>

nonBcastVars == <<execVars, flushVars, tickVars, candleVars, refVars, signalVars, trailVars, subVars, riskVars, swingVars, legVars, emitVars, oiVars, raceVars>>

nonOiVars == <<execVars, flushVars, tickVars, candleVars, refVars, signalVars, trailVars, subVars, riskVars, swingVars, legVars, emitVars, bcastVars, raceVars>>

nonRaceVars == <<execVars, flushVars, tickVars, candleVars, refVars, signalVars, trailVars, subVars, riskVars, swingVars, legVars, emitVars, bcastVars, oiVars>>

(***************************************************************************)
(*                          ExecutionEngine                                *)
(***************************************************************************)

\* config.INDICES: the index names
INDICES == {"NIFTY", "BANKNIFTY"}

\* config.INDICES[name]['lot_size']
lot_size(index_name) == IF index_name = "NIFTY" THEN 75 ELSE 15

\* slippage=0.001, as parts per thousand
SlippagePerMille == 1

\* commission_rate=0.0005, as parts per ten thousand
CommissionPerTenThousand == 5

\* fixed_charge=20 rupees
fixed_charge == 20

\* Money is counted in units of 1/MoneyScale rupee, which makes every amount
\* below an integer for the lot sizes 75 and 15.
MoneyScale == 400 * 1000

\* Option prices (rupees) a signal or an exit can carry.
OptionPrices == {1, 3}

Sides == {"BUY_CE", "BUY_PE"}

\* Bound: the number of execute_signal calls that open a position.
MaxEntries == 2

\* entry_price = signal.option_price * (1 + self.slippage), times 1000
entry_price_x1000(option_price) == option_price * (1000 + SlippagePerMille)

\* entry_cost = entry_price * quantity * commission_rate + fixed_charge, in money units
entry_cost(option_price, quantity) ==
    (entry_price_x1000(option_price) * quantity * CommissionPerTenThousand * (MoneyScale \div 1000)) \div 10000
        + fixed_charge * MoneyScale

\* exit_price = current_price * (1 - self.slippage), times 1000
exit_price_x1000(current_price) == current_price * (1000 - SlippagePerMille)

\* exit_cost = exit_price * quantity * commission_rate + fixed_charge, in money units
exit_cost(current_price, quantity) ==
    (exit_price_x1000(current_price) * quantity * CommissionPerTenThousand * (MoneyScale \div 1000)) \div 10000
        + fixed_charge * MoneyScale

\* pnl_net = (exit_price - pos['entry_price']) * quantity - exit_cost, in money units;
\* pos['entry_price'] is the signal's option price, without slippage.
pnl_net(pos, current_price) ==
    (exit_price_x1000(current_price) - pos.entry_price * 1000) * pos.quantity * (MoneyScale \div 1000)
        - exit_cost(current_price, pos.quantity)

ExecIdle ==
    /\ positions = EmptyDict
    /\ trades = <<>>
    /\ balance = 0
    /\ last_call = [op |-> None, index_name |-> None, ret |-> None]

OpenEntries == Cardinality({k \in 1..Len(trades) : trades[k].side = "BUY"})

\* signal.details['ce_key'] and ['pe_key']: the option instruments of the index
\* the signal was generated for (strategy.py lines 327-328).
signal_details(index_name) ==
    IF index_name = "NIFTY"
    THEN [ce_key |-> "NSE_FO|NIFTY_CE", pe_key |-> "NSE_FO|NIFTY_PE"]
    ELSE [ce_key |-> "NSE_FO|BANKNIFTY_CE", pe_key |-> "NSE_FO|BANKNIFTY_PE"]

\* The body of execute_signal once the guard of line 43 has passed (lines 46-87),
\* for a signal whose details name the options ce_key and pe_key.
OpenPositionOn(index_name, side, option_price, ce_key, pe_key) ==
    LET quantity == lot_size(index_name)
        trade == [index_name |-> index_name, instrument_key |-> side, side |-> "BUY",
                  price_x1000 |-> entry_price_x1000(option_price), quantity |-> quantity,
                  status |-> "OPEN", pnl |-> 0]
    IN  /\ balance' = balance - entry_cost(option_price, quantity)
        /\ trades' = Append(trades, trade)
        /\ positions' = DictPut(positions, index_name,
                            [trade_id |-> Len(trades) + 1, side |-> side,
                             entry_price |-> option_price, quantity |-> quantity,
                             ce_key |-> ce_key, pe_key |-> pe_key, trailing_sl |-> 0])
        /\ last_call' = [op |-> "execute_signal", index_name |-> index_name, ret |-> "trade"]

OpenPosition(index_name, side, option_price) ==
    OpenPositionOn(index_name, side, option_price,
                   signal_details(index_name).ce_key, signal_details(index_name).pe_key)

\* A variant of execute_signal without the guard of line 43.
execute_signal_unguarded(index_name, side, option_price) ==
    OpenPosition(index_name, side, option_price)

\* ExecutionEngine.execute_signal(signal)
execute_signal(index_name, side, option_price) ==
    IF index_name \in DOMAIN positions
    THEN /\ last_call' = [op |-> "execute_signal", index_name |-> index_name, ret |-> None]
         /\ UNCHANGED <<positions, trades, balance>>
    ELSE OpenPosition(index_name, side, option_price)

\* ExecutionEngine.close_position(index_name, current_price)
close_position(index_name, current_price) ==
    IF index_name \notin DOMAIN positions
    THEN /\ last_call' = [op |-> "close_position", index_name |-> index_name, ret |-> None]
         /\ UNCHANGED <<positions, trades, balance>>
    ELSE LET pos == positions[index_name]
             pnl == pnl_net(pos, current_price)
             exit_trade == [index_name |-> index_name, instrument_key |-> pos.side,
                            side |-> "SELL", price_x1000 |-> exit_price_x1000(current_price),
                            quantity |-> pos.quantity, status |-> "CLOSED", pnl |-> pnl]
         IN  /\ positions' = DictPop(positions, index_name)
             /\ balance' = balance + pnl
             /\ trades' = Append([trades EXCEPT ![pos.trade_id].status = "CLOSED",
                                                ![pos.trade_id].pnl = pnl],
                                 exit_trade)
             /\ last_call' = [op |-> "close_position", index_name |-> index_name, ret |-> "trade"]

ExecuteSignal ==
    \E i \in INDICES, s \in Sides, p \in OptionPrices :
        /\ OpenEntries < MaxEntries \/ i \in DOMAIN positions
        /\ execute_signal(i, s, p)
        /\ UNCHANGED nonExecVars

ClosePosition ==
    \E i \in INDICES, p \in OptionPrices :
        /\ close_position(i, p)
        /\ UNCHANGED nonExecVars

(***************************************************************************)
(*                 Batch persister: tick_buffer and its flushers           *)
(*                                                                         *)
(* buffer_lock: the two critical sections of flush_tick_buffer (lines      *)
(* 102-105 and 122-123) and the one of on_message (lines 319-322) run      *)
(* under the lock and call nothing that blocks, so each is one atomic      *)
(* step.  The insert and the retry sleep run outside the lock and are      *)
(* steps of their own.                                                     *)
(***************************************************************************)

\* TICK_BATCH_SIZE = 100
TICK_BATCH_SIZE == 100

\* max_retries = 3
max_retries == 3

\* Bound: the number of on_message calls that append ticks.
MaxMessages == 2

\* The numbers of ticks one message can append (the entries of its sym_feeds).
MessageSizes == {1, TICK_BATCH_SIZE - 1, TICK_BATCH_SIZE}

\* Ticks are numbered in the order on_message appends them.  A list of ticks
\* is kept as a sequence of blocks, a block [first, last] being the consecutive
\* ticks first..last that one message appended: the buffer is only ever
\* extended by a message's ticks, swapped whole and concatenated, so a block is
\* never split.
Block(first, last) == [first |-> first, last |-> last]

RECURSIVE NumTicks(_)
\* len() of a list of ticks
NumTicks(blocks) ==
    IF blocks = <<>> THEN 0
    ELSE (Head(blocks).last - Head(blocks).first + 1) + NumTicks(Tail(blocks))

\* The ticks of a list, as a set.
TicksOf(blocks) == UNION {blocks[k].first .. blocks[k].last : k \in 1..Len(blocks)}

\* The periodic_flush thread started at import (line 152).
TimerWorker == 0

FlushIdle ==
    /\ tick_buffer = <<>>
    /\ workers = [w \in {TimerWorker} |->
                    [pc |-> "sleep10", to_insert |-> <<>>, attempt |-> 0, result |-> None]]
    /\ persisted = <<>>
    /\ appended = 0
    /\ messages = 0

\* The size-triggered threads started so far (line 322).
SizeWorkers == DOMAIN workers \ {TimerWorker}

\* threading.Thread(target=flush_tick_buffer, daemon=True).start()
StartFlushThread(ws) ==
    DictPut(ws, Cardinality(DOMAIN ws),
            [pc |-> "swap", to_insert |-> <<>>, attempt |-> 0, result |-> None])

\* A variant of flush_tick_buffer whose insert and retry sleep are inside the
\* with buffer_lock block.
lock_held_at_insert(pc) == pc \in {"insert", "sleep1"}

\* Whether a thread at pc holds buffer_lock.  The with blocks of lines
\* 102-105 and 122-123 begin and end inside the swap and the put-back, which
\* are one step each; the insert of line 112 and the sleep of line 118 are
\* outside them.
lock_held_at(pc) == FALSE

\* buffer_lock can be acquired: no flush thread holds it.
LockFree == \A w \in DOMAIN workers : ~lock_held_at(workers[w].pc)

\* A variant of line 321 that starts the thread only above TICK_BATCH_SIZE.
batch_full_above(n) == n > TICK_BATCH_SIZE

\* on_message, line 321: len(tick_buffer) >= TICK_BATCH_SIZE
batch_full(n) == n >= TICK_BATCH_SIZE

\* on_message, lines 319-322: under buffer_lock, extend the buffer by the
\* message's ticks and start a flush thread when it holds TICK_BATCH_SIZE or more.
ExtendBuffer(ticks) ==
    /\ LockFree
    /\ tick_buffer' = tick_buffer \o ticks
    /\ workers' = IF batch_full(NumTicks(tick_buffer'))
                  THEN StartFlushThread(workers)
                  ELSE workers

\* periodic_flush, lines 127-130: the timer thread wakes and calls flush_tick_buffer.
TimerFires ==
    /\ workers[TimerWorker].pc = "sleep10"
    /\ workers' = [workers EXCEPT ![TimerWorker].pc = "swap",
                                  ![TimerWorker].to_insert = <<>>,
                                  ![TimerWorker].attempt = 0]
    /\ UNCHANGED <<tick_buffer, persisted, appended, messages>>

\* A variant of periodic_flush without the loop of line 127: the timer
\* thread ends after its first flush.
AfterFlushOnce(w) == "done"

\* Where a thread goes when flush_tick_buffer returns.
AfterFlush(w) == IF w = TimerWorker THEN "sleep10" ELSE "done"

\* A variant of line 105 that leaves the batch in the buffer.
SwappedBufferKept == tick_buffer

\* flush_tick_buffer, line 105: tick_buffer = []
SwappedBuffer == <<>>

\* flush_tick_buffer, lines 101-107: swap the buffer for an empty list under
\* the lock; with nothing to insert the function returns.
SwapBuffer(w) ==
    /\ workers[w].pc = "swap"
    /\ LockFree
    /\ IF tick_buffer # <<>>
       THEN /\ workers' = [workers EXCEPT ![w].pc = "insert", ![w].to_insert = tick_buffer]
            /\ tick_buffer' = SwappedBuffer
       ELSE /\ workers' = [workers EXCEPT ![w].pc = AfterFlush(w), ![w].result = "empty"]
            /\ UNCHANGED tick_buffer
    /\ UNCHANGED <<persisted, appended, messages>>

\* flush_tick_buffer, lines 112-114: db.insert_ticks(to_insert) succeeds.
InsertSucceeds(w) ==
    /\ workers[w].pc = "insert"
    /\ persisted' = persisted \o workers[w].to_insert
    /\ workers' = [workers EXCEPT ![w].pc = AfterFlush(w), ![w].to_insert = <<>>,
                                  ![w].result = "inserted"]
    /\ UNCHANGED <<tick_buffer, appended, messages>>

\* A variant of line 117 that sleeps and retries after the last attempt too.
retries_left_one_more(attempt) == attempt < max_retries

\* line 117: attempt < max_retries - 1
retries_left(attempt) == attempt < max_retries - 1

\* flush_tick_buffer, lines 115-121: db.insert_ticks raises; sleep before a
\* retry, or go and return the batch after the last attempt.
InsertFails(w) ==
    /\ workers[w].pc = "insert"
    /\ workers' = [workers EXCEPT ![w].pc = IF retries_left(workers[w].attempt)
                                            THEN "sleep1" ELSE "putback"]
    /\ UNCHANGED <<tick_buffer, persisted, appended, messages>>

\* flush_tick_buffer, line 118 and the loop of line 110: the sleep ends, next attempt.
RetryAfterSleep(w) ==
    /\ workers[w].pc = "sleep1"
    /\ workers' = [workers EXCEPT ![w].pc = "insert", ![w].attempt = @ + 1]
    /\ UNCHANGED <<tick_buffer, persisted, appended, messages>>

\* A variant of lines 122-123 that drops the failed batch.
ReturnedBufferDropping(w) == tick_buffer

\* flush_tick_buffer, line 123: tick_buffer = to_insert + tick_buffer
ReturnedBuffer(w) == workers[w].to_insert \o tick_buffer

\* flush_tick_buffer, lines 122-123: under the lock, put the failed batch back.
PutBack(w) ==
    /\ workers[w].pc = "putback"
    /\ LockFree
    /\ tick_buffer' = ReturnedBuffer(w)
    /\ workers' = [workers EXCEPT ![w].pc = AfterFlush(w), ![w].to_insert = <<>>,
                                  ![w].result = "returned"]
    /\ UNCHANGED <<persisted, appended, messages>>

\* on_message for a message whose sym_feeds holds n ticks.
OnMessageAppend ==
    \E n \in MessageSizes :
        /\ messages < MaxMessages
        /\ ExtendBuffer(<<Block(appended + 1, appended + n)>>)
        /\ appended' = appended + n
        /\ messages' = messages + 1
        /\ UNCHANGED persisted

FlushStep ==
    \E w \in DOMAIN workers :
        \/ SwapBuffer(w)
        \/ InsertSucceeds(w)
        \/ InsertFails(w)
        \/ RetryAfterSleep(w)
        \/ PutBack(w)


(***************************************************************************)
(*       on_message: deduplication and volume-delta reconstruction         *)
(*                                                                         *)
(* Unit of time: a millisecond timestamp is counted in units of 10^4 ms,   *)
(* so that the limit 10^10 ms of line 247 and a timestamp multiplied by    *)
(* 1000 are integers TLC can hold.  Every test on a timestamp in the code  *)
(* (equality, 0 < ts < 10^10, ts * 1000) is unchanged by the unit.         *)
(* Prices and cumulative volumes are integers, on which core.utils'        *)
(* safe_int and safe_float return their argument.                          *)
(***************************************************************************)

\* The instruments that send ticks: an index and a stock.
Instruments == {"NSE_INDEX|NIFTY 50", "NSE_EQ|RELIANCE"}

\* is_index = inst_key in UPSTOX_INDEX_MAP or "INDEX" in inst_key.upper()
is_index(inst_key) == inst_key = "NSE_INDEX|NIFTY 50"

\* str.upper()
upper(instrument_key) ==
    IF instrument_key = "nse_fo|nifty_ce" THEN "NSE_FO|NIFTY_CE" ELSE instrument_key

\* interval.isdigit()
interval_isdigit(interval) == interval \in {"1", "5"}

\* int(interval) of a numeric interval, 1440 for 'D'
interval_minutes(interval) ==
    IF interval = "D" THEN 1440 ELSE IF interval = "5" THEN 5 ELSE 1

\* str(n)
minutes_str(n) == IF n = 1440 THEN "1440" ELSE IF n = 5 THEN "5" ELSE "1"

\* A variant of get_primary_interval that takes the largest interval.
get_primary_interval_largest(instrument_key) ==
    LET active == {interval_minutes(k[2]) :
                      k \in {r \in DOMAIN room_subscribers :
                                /\ r[1] = upper(instrument_key)
                                /\ (interval_isdigit(r[2]) \/ r[2] = "D")}}
    IN  IF active = {} THEN "1"
        ELSE minutes_str(CHOOSE n \in active : \A m \in active : n >= m)

\* get_primary_interval(instrument_key): the smallest interval with a room of
\* the instrument, "1" when there is none (as in every specification that
\* subscribes no consumer)
get_primary_interval(instrument_key) ==
    LET active == {interval_minutes(k[2]) :
                      k \in {r \in DOMAIN room_subscribers :
                                /\ r[1] = upper(instrument_key)
                                /\ (interval_isdigit(r[2]) \/ r[2] = "D")}}
    IN  IF active = {} THEN "1"
        ELSE minutes_str(CHOOSE n \in active : \A m \in active : n <= m)

\* core.utils.safe_int, on an integer
safe_int(x) == x

\* core.utils.safe_float, on an integer
safe_float(x) == x

\* The limit 10000000000 ms of line 247, in time units.
TenBillionMs == 1000 * 1000

\* The wall clock when the process starts, in time units (1.7 * 10^12 ms).
StartClock == 170 * 1000 * 1000

\* The readings of the wall clock: two consecutive ones.
ClockValues == {StartClock, StartClock + 1}

\* Bound: the number of on_message calls.
MaxTickMessages == 2

\* The bar timestamps (seconds) a chart snapshot carries: zero, a small
\* number, an epoch second.
ChartSeconds == {0, 60, 20 * 1000 * 1000}

\* The ts_ms a quote carries (time units): zero, a small number, an epoch ms.
QuoteTimestamps == {0, 6, 2 * 1000 * 1000}

TickPrices == {100, 101}

\* Cumulative volumes: none, ordinary ones, and two beyond the clamp of line 292.
CumulativeVolumes == {0, 4000 * 1000, 6002 * 1000, 13003 * 1000}

\* x or time.time() * 1000, for a number x: 0 is falsy, like a missing ts_ms
OrNow(x) == IF x = 0 THEN now ELSE x

\* last_ohlcv[0] * 1000 (seconds to ms), in time units
SecondsToMs(seconds) == seconds \div 10

\* prev = last_processed_tick.get(key, {}) and the three prev.get(...)
\* comparisons: all three equal (a missing entry equals nothing)
SameAsPrev(lpt, key, ts_ms, price, volume) ==
    /\ key \in DOMAIN lpt
    /\ ts_ms = lpt[key].ts_ms
    /\ price = lpt[key].price
    /\ volume = lpt[key].volume

\* on_message, lines 199-214: the tick synthesised from a chart snapshot and
\* the deduplication state after it; no tick when the interval is not the
\* primary one or the snapshot repeats the last processed tick.
ChartFeeds(data, lpt) ==
    LET instrument_key == data.instrumentKey
        last_ohlcv == data.ohlcv
        ts_ms == safe_int(SecondsToMs(last_ohlcv[1]))
        price == safe_float(last_ohlcv[5])
        volume == safe_float(last_ohlcv[6])
    IN  IF data.interval = get_primary_interval(instrument_key)
           /\ ~SameAsPrev(lpt, instrument_key, ts_ms, price, volume)
        THEN [feeds_map |-> DictPut(EmptyDict, instrument_key,
                                [last_price |-> price, tv_volume |-> volume, ts_ms |-> ts_ms,
                                 source |-> "tv_chart_fallback", interval |-> data.interval]),
              lpt |-> DictPut(lpt, instrument_key,
                              [ts_ms |-> ts_ms, price |-> price, volume |-> volume])]
        ELSE [feeds_map |-> EmptyDict, lpt |-> lpt]

\* lines 257-260: tracker_key
tracker_key(inst_key, interval, is_candle_source) ==
    IF is_candle_source THEN <<inst_key, interval, "candle">> ELSE <<inst_key, "daily">>

\* line 266: prev_vol = latest_total_volumes.get(tracker_key, 0)
prev_vol_of(ltv, key) == IF key \in DOMAIN ltv THEN ltv[key] ELSE 0

\* line 270: curr_vol < prev_vol * 0.5
is_reset(is_candle_source, curr_vol, prev_vol) == is_candle_source /\ 2 * curr_vol < prev_vol

\* A variant of line 273 without the max(0, ...).
normal_delta_signed(curr_vol, prev_vol) == curr_vol - prev_vol

\* line 273: delta_vol = max(0, curr_vol - prev_vol)
normal_delta(curr_vol, prev_vol) == Max(0, curr_vol - prev_vol)

\* lines 268-276: delta_vol from the reading and the stored cumulative volume
volume_delta(is_candle_source, curr_vol, prev_vol) ==
    IF prev_vol > 0
    THEN IF is_reset(is_candle_source, curr_vol, prev_vol)
         THEN curr_vol
         ELSE normal_delta(curr_vol, prev_vol)
    ELSE 0

\* lines 283-288: the synthetic volume of an index
index_heartbeat(delta_vol, inst_key, is_candle_source, ts_val, lpt) ==
    IF is_index(inst_key) /\ delta_vol <= 0 /\ is_candle_source
       /\ ~(inst_key \in DOMAIN lpt /\ ts_val = lpt[inst_key].ts_ms)
    THEN 1
    ELSE delta_vol

\* A variant of lines 292-294 that lets an extreme delta through.
clamp_extreme_off(delta_vol, inst_key) == delta_vol

\* lines 292-294: clamp an extreme delta
clamp_extreme(delta_vol, inst_key) ==
    IF delta_vol > 5000000
    THEN IF is_index(inst_key) THEN 100 ELSE delta_vol % 10000
    ELSE delta_vol

\* lines 246-248: ts_val, a timestamp in seconds taken to ms
ts_val_of(ts_ms) ==
    LET ts_val == safe_int(OrNow(ts_ms))
    IN  IF 0 < ts_val /\ ts_val < TenBillionMs THEN ts_val * 1000 ELSE ts_val

\* One iteration of the loop of line 225 over feeds_map, on the state
\* st = [lpt, ltv, sym_feeds] of last_processed_tick, latest_total_volumes
\* and sym_feeds.
ProcessFeed(inst_key, feed_datum, st) ==
    LET is_quote == feed_datum.source # "tv_chart_fallback"
        ts_ms == safe_int(OrNow(feed_datum.ts_ms))
        price == safe_float(feed_datum.last_price)
        volume == safe_float(feed_datum.tv_volume)
        lpt == IF is_quote
               THEN DictPut(st.lpt, inst_key, [ts_ms |-> ts_ms, price |-> price, volume |-> volume])
               ELSE st.lpt
        source == IF feed_datum.source = None THEN "tv_wss" ELSE feed_datum.source
        ts_val == ts_val_of(feed_datum.ts_ms)
        is_candle_source == source = "tv_chart_fallback"
        key == tracker_key(inst_key, feed_datum.interval, is_candle_source)
        curr_vol == safe_float(feed_datum.tv_volume)
        prev_vol == prev_vol_of(st.ltv, key)
        delta_vol == clamp_extreme(
                        index_heartbeat(volume_delta(is_candle_source, curr_vol, prev_vol),
                                        inst_key, is_candle_source, ts_val, lpt),
                        inst_key)
        tick == [instrumentKey |-> inst_key, last_price |-> safe_float(feed_datum.last_price),
                 tv_volume |-> feed_datum.tv_volume, source |-> source,
                 interval |-> feed_datum.interval, ts_ms |-> ts_val,
                 ltq |-> safe_int(delta_vol)]
    IN  IF is_quote /\ SameAsPrev(st.lpt, inst_key, ts_ms, price, volume)
        THEN st
        ELSE [lpt |-> lpt,
              ltv |-> DictPut(st.ltv, key, curr_vol),
              sym_feeds |-> DictPut(st.sym_feeds, inst_key, tick)]

RECURSIVE ProcessFeeds(_, _)
\* The loop of line 225: for inst_key, feed_datum in feeds_map.items()
ProcessFeeds(feeds_map, st) ==
    IF DOMAIN feeds_map = {} THEN st
    ELSE LET inst_key == CHOOSE k \in DOMAIN feeds_map : TRUE
         IN  ProcessFeeds(DictPop(feeds_map, inst_key),
                          ProcessFeed(inst_key, feeds_map[inst_key], st))

NoResult == [fault |-> None, raised |-> FALSE, error |-> FALSE, after_error |-> FALSE]

TickIdle ==
    /\ now = StartClock
    /\ last_processed_tick = EmptyDict
    /\ latest_total_volumes = EmptyDict
    /\ message = [type |-> None]
    /\ sym_feeds = EmptyDict
    /\ prev_total_volumes = EmptyDict
    /\ on_message_result = NoResult

RECURSIVE ProcessFeedsUntil(_, _, _)
\* The loop of line 225 when the entry of bad_key raises (a feed_datum that
\* is no dict, line 227): the entries before it have been processed.
ProcessFeedsUntil(feeds_map, st, bad_key) ==
    IF DOMAIN feeds_map = {} THEN st
    ELSE LET inst_key == CHOOSE k \in DOMAIN feeds_map : TRUE
         IN  IF inst_key = bad_key THEN st
             ELSE ProcessFeedsUntil(DictPop(feeds_map, inst_key),
                                    ProcessFeed(inst_key, feeds_map[inst_key], st), bad_key)

\* Where a call of on_message meets an exception:
\*   "json"      json.loads raises on the message (line 160)
\*   "feed"      the entry of one instrument raises in the loop (lines 225-297)
\*   "emit"      serialising the tick raises in emit_event (line 86, outside
\*               the try of line 87), called at lines 307-315
\*   "callback"  an internal tick callback raises (line 327)
Faults == {"json", "feed", "emit", "callback"}

\* The try body of on_message, lines 160-329: the state it leaves in
\* last_processed_tick and latest_total_volumes, the ticks it appends, and
\* whether an exception leaves the body.
on_message_body(data, fault, bad_key) ==
    LET chart == IF data.type = "chart_update"
                 THEN ChartFeeds(data, last_processed_tick)
                 ELSE [feeds_map |-> EmptyDict, lpt |-> last_processed_tick]
        feeds_map == IF DOMAIN chart.feeds_map # {} THEN chart.feeds_map
                     ELSE IF data.type = "chart_update" THEN EmptyDict
                     ELSE data.feeds
        st0 == [lpt |-> chart.lpt, ltv |-> latest_total_volumes, sym_feeds |-> EmptyDict]
        feed_raises == fault = "feed" /\ bad_key \in DOMAIN feeds_map
        st == IF feed_raises THEN ProcessFeedsUntil(feeds_map, st0, bad_key)
              ELSE ProcessFeeds(feeds_map, st0)
        emit_raises == fault = "emit" /\ DOMAIN st.sym_feeds # {}
    IN  IF fault = "json"
        THEN [lpt |-> last_processed_tick, ltv |-> latest_total_volumes,
              sym_feeds |-> EmptyDict, exception |-> TRUE]
        ELSE IF DOMAIN feeds_map = {}
        THEN [lpt |-> last_processed_tick, ltv |-> latest_total_volumes,
              sym_feeds |-> EmptyDict, exception |-> FALSE]
        ELSE IF feed_raises \/ emit_raises
        THEN [lpt |-> st.lpt, ltv |-> st.ltv, sym_feeds |-> EmptyDict, exception |-> TRUE]
        ELSE [lpt |-> st.lpt, ltv |-> st.ltv, sym_feeds |-> st.sym_feeds, exception |-> FALSE]

\* A variant of on_message without the handler of lines 331-332.
except_nothing(body) == [raised |-> body.exception, error |-> FALSE]

\* lines 331-332: except Exception as e: logger.error(...)
except_exception(body) == [raised |-> FALSE, error |-> body.exception]

\* on_message(message) for a message that meets the given fault (None for
\* no fault): the chart branch, the loop over the feeds, and the append of
\* the resulting ticks to tick_buffer under buffer_lock.
on_message_with(data, fault, bad_key) ==
    LET body == on_message_body(data, fault, bad_key)
        n == Cardinality(DOMAIN body.sym_feeds)
    IN  /\ message' = data
        /\ messages' = messages + 1
        /\ prev_total_volumes' = latest_total_volumes
        /\ last_processed_tick' = body.lpt
        /\ latest_total_volumes' = body.ltv
        /\ sym_feeds' = body.sym_feeds
        /\ IF n = 0
           THEN UNCHANGED <<tick_buffer, workers, appended>>
           ELSE /\ ExtendBuffer(<<Block(appended + 1, appended + n)>>)
                /\ appended' = appended + n
        /\ on_message_result' =
               [fault |-> fault, raised |-> except_exception(body).raised,
                error |-> except_exception(body).error,
                after_error |-> on_message_result.error]
        /\ UNCHANGED now

\* on_message(message) for a message that meets no fault.
on_message(data) == on_message_with(data, None, None)

\* A chart_update message for one instrument, with the last bar of its ohlcv.
ChartMessages ==
    {[type |-> "chart_update", instrumentKey |-> k, interval |-> "1",
      ohlcv |-> <<t, p, p, p, p, v>>] :
        k \in Instruments, t \in ChartSeconds, p \in TickPrices, v \in CumulativeVolumes}

\* The feed of one instrument in a quote message.
QuoteFeed(t, p, v) ==
    [last_price |-> p, tv_volume |-> v, ts_ms |-> t, source |-> None, interval |-> "1"]

\* A quote message: the feed of one instrument, or the same feed for both.
QuoteMessages ==
    {[type |-> "live_feed", feeds |-> [k \in ks |-> QuoteFeed(t, p, v)]] :
        ks \in {{k} : k \in Instruments},
        t \in QuoteTimestamps, p \in TickPrices, v \in CumulativeVolumes}
    \cup
    {[type |-> "live_feed", feeds |-> [k \in Instruments |-> QuoteFeed(t, 100, v)]] :
        t \in QuoteTimestamps, v \in CumulativeVolumes}

OnMessage ==
    \E data \in ChartMessages \cup QuoteMessages :
        /\ messages < MaxTickMessages
        /\ on_message(data)
        /\ UNCHANGED nonTickVars

\* The quote messages of the ingestion specification: one timestamp, the
\* feed of one instrument or of both.
IngestMessages ==
    {[type |-> "live_feed", feeds |-> [k \in ks |-> QuoteFeed(6, p, v)]] :
        ks \in (SUBSET Instruments) \ {{}}, p \in TickPrices, v \in {0, 4000 * 1000}}

\* A well-formed message arrives.
OnGoodMessage ==
    \E data \in IngestMessages :
        /\ messages < MaxTickMessages
        /\ on_message(data)
        /\ UNCHANGED nonTickVars

\* A message arrives that meets a fault: it cannot be parsed, one of its
\* entries is malformed, its emission fails or a callback fails on it.
OnFaultyMessage ==
    \E data \in IngestMessages, fault \in Faults, bad_key \in Instruments :
        /\ messages < MaxTickMessages
        /\ on_message_with(data, fault, bad_key)
        /\ UNCHANGED nonTickVars

\* The wall clock advances.
ClockTick ==
    /\ now' \in ClockValues
    /\ now' > now
    /\ UNCHANGED <<last_processed_tick, latest_total_volumes, message, sym_feeds,
                   prev_total_volumes, on_message_result>>
    /\ UNCHANGED <<execVars, flushVars, candleVars, refVars, signalVars, trailVars, subVars, riskVars, swingVars, legVars, emitVars, bcastVars, oiVars, raceVars>>

(***************************************************************************)
(*        TradingBot.aggregate_and_process: 1m and 5m candles              *)
(*                                                                         *)
(* The candles of one instrument of one index, lines 60-136.  The wall     *)
(* clock is read once per call and truncated to the minute; a minute is    *)
(* counted from the top of an hour.  The function does not await before    *)
(* line 139, so a call is one step.                                        *)
(***************************************************************************)

\* The minute of the wall clock when the bot starts.
StartMinute == 1

\* Bound: the number of minutes the wall clock advances.
MaxMinutes == 4

\* Bound: the number of aggregate_and_process calls.
MaxCandleTicks == 5

\* The instrument whose ticks are aggregated.
CandleKeys == {"NSE_FO|NIFTY_CE"}

\* The prices and the volumes a tick carries.
CandlePrices == {1, 2, 3}

CandleVolumes == {2}

\* lines 70 and 130: a bucket seeded with the tick's price, volume 0
NewCandle(key, minute, price) ==
    [instrument_key |-> key, timestamp |-> minute, open |-> price, high |-> price,
     low |-> price, close |-> price, volume |-> 0]

\* A variant of lines 133-136 that leaves the volume of the bucket alone.
UpdateBufferPriceOnly(buffer, price, volume) ==
    [buffer EXCEPT !.high = Max(buffer.high, price),
                   !.low = Min(buffer.low, price),
                   !.close = price]

\* lines 133-136: the open bucket takes the tick
UpdateBuffer(buffer, price, volume) ==
    [buffer EXCEPT !.high = Max(buffer.high, price),
                   !.low = Min(buffer.low, price),
                   !.close = price,
                   !.volume = buffer.volume + volume]

\* line 116: minute.replace(minute=minute.minute - (minute.minute % 5))
FloorFive(minute) == minute - (minute % 5)

\* A variant of lines 124-127 that takes the high of the latest bar.
Accumulate5mLatestHigh(buf5, buffer) ==
    [buf5 EXCEPT !.high = buffer.high,
                 !.low = Min(buf5.low, buffer.low),
                 !.close = buffer.close,
                 !.volume = buf5.volume + buffer.volume]

\* lines 124-127: the 5m bucket takes a finalized 1m bar
Accumulate5m(buf5, buffer) ==
    [buf5 EXCEPT !.high = Max(buf5.high, buffer.high),
                 !.low = Min(buf5.low, buffer.low),
                 !.close = buffer.close,
                 !.volume = buf5.volume + buffer.volume]

\* StrategyEngine.update_candle: append to the history of the key, drop the
\* oldest bar beyond the limit (20 for 1m, 10 for 5m).
update_candle(target_history, instrument_key, candle, limit) ==
    LET old == IF instrument_key \in DOMAIN target_history
               THEN target_history[instrument_key] ELSE <<>>
        new == Append(old, candle)
    IN  DictPut(target_history, instrument_key, IF Len(new) > limit THEN Tail(new) ELSE new)

CandleIdle ==
    /\ wall_minute = StartMinute
    /\ candle_buffers = EmptyDict
    /\ candle_buffers_5m = EmptyDict
    /\ candle_history = EmptyDict
    /\ candle_history_5m = EmptyDict
    /\ candle_ticks = 0

\* TradingBot.aggregate_and_process(index_name, key, price, volume), lines 60-136
aggregate_and_process(index_name, key, price, volume) ==
    LET minute == wall_minute
        buffer_key == <<index_name, key>>
        buffers == IF buffer_key \notin DOMAIN candle_buffers
                   THEN DictPut(candle_buffers, buffer_key, NewCandle(key, minute, price))
                   ELSE candle_buffers
        buffer == buffers[buffer_key]
        buffers_5m == IF buffer_key \notin DOMAIN candle_buffers_5m
                      THEN DictPut(candle_buffers_5m, buffer_key,
                                   [buffer EXCEPT !.timestamp = FloorFive(minute)])
                      ELSE candle_buffers_5m
        buf5 == buffers_5m[buffer_key]
    IN  IF minute > buffer.timestamp
        THEN /\ candle_history' = update_candle(candle_history, key, buffer, 20)
             /\ IF minute % 5 = 0 /\ minute > buf5.timestamp
                THEN /\ candle_history_5m' = update_candle(candle_history_5m, key, buf5, 10)
                     /\ candle_buffers_5m' = DictPut(buffers_5m, buffer_key, buffer)
                ELSE /\ candle_buffers_5m' = DictPut(buffers_5m, buffer_key,
                                                     Accumulate5m(buf5, buffer))
                     /\ UNCHANGED candle_history_5m
             /\ candle_buffers' = DictPut(buffers, buffer_key, NewCandle(key, minute, price))
        ELSE /\ candle_buffers' = DictPut(buffers, buffer_key,
                                          UpdateBuffer(buffer, price, volume))
             /\ UNCHANGED <<candle_buffers_5m, candle_history, candle_history_5m>>

AggregateAndProcess ==
    \E key \in CandleKeys, price \in CandlePrices, volume \in CandleVolumes :
        /\ candle_ticks < MaxCandleTicks
        /\ aggregate_and_process("NIFTY", key, price, volume)
        /\ candle_ticks' = candle_ticks + 1
        /\ UNCHANGED wall_minute
        /\ UNCHANGED nonCandleVars

\* The wall clock passes into the next minute.
MinutePasses ==
    /\ wall_minute < StartMinute + MaxMinutes
    /\ wall_minute' = wall_minute + 1
    /\ UNCHANGED <<candle_buffers, candle_buffers_5m, candle_history, candle_history_5m,
                   candle_ticks>>
    /\ UNCHANGED nonCandleVars

\* Bound: the number of minutes the wall clock advances when two 5-minute
\* boundaries are to pass.
MaxAlignMinutes == 9

\* The wall clock passes into the next minute, up to the second 5-minute
\* boundary after the start.
MinutePassesAlign ==
    /\ wall_minute < StartMinute + MaxAlignMinutes
    /\ wall_minute' = wall_minute + 1
    /\ UNCHANGED <<candle_buffers, candle_buffers_5m, candle_history, candle_history_5m,
                   candle_ticks>>
    /\ UNCHANGED nonCandleVars

(***************************************************************************)
(*      Reference levels: identify_swing and save_reference_level          *)
(*                                                                         *)
(* The StrategyEngine of one index (symmetry_engine/strategy.py), fed by   *)
(* the db_ops thread of aggregate_and_process (main.py lines 79-97), and   *)
(* the SymmetryAnalyzer (brain/SymmetryAnalyzer.py), whose analyze loop    *)
(* keeps reference levels of its own (lines 216-226).  An optional value   *)
(* is a sequence: << >> for None, <<v>> for the value v.                   *)
(***************************************************************************)

LevelTypes == {"High", "Low"}

\* config.SWING_WINDOW = 15, the swing_window of both engines
SWING_WINDOW == 15

\* Bound: the number of identify_swing calls that return a swing.
MaxSwings == 3

\* A 1m bar that traded at one price.
FlatBar(price) == [open |-> price, high |-> price, low |-> price, close |-> price]

\* The last four bars of the histories below: peaks with a pullback of three
\* lower highs, troughs with three higher lows, a peak whose pullback is not
\* monotonic, a peak one bar too late, and no move at all.
SwingTails ==
    {<<40, 30, 25, 15>>, <<30, 25, 15, 10>>, <<10, 15, 25, 30>>, <<5, 10, 15, 25>>,
     <<40, 30, 35, 10>>, <<30, 40, 25, 10>>, <<20, 20, 20, 20>>}

\* The candle histories identify_swing is called on: eleven bars at 20
\* followed by one of the tails, and one history shorter than the window.
SwingHistories ==
    {[i \in 1..15 |-> FlatBar(IF i <= 11 THEN 20 ELSE tail[i - 11])] : tail \in SwingTails}
    \cup {[i \in 1..14 |-> FlatBar(IF i <= 11 THEN 20 ELSE 40 - 5 * (i - 11))]}

\* tr = max(h - l, abs(h - pc), abs(l - pc)) of bar i (i >= 2), lines 75-78
true_range(history, i) ==
    Max(Max(history[i].high - history[i].low, Abs(history[i].high - history[i - 1].close)),
        Abs(history[i].low - history[i - 1].close))

\* effective_period = min(period, len(history) - 1), line 71
effective_period(history) == Min(14, Len(history) - 1)

RECURSIVE SumTrueRanges(_, _, _)
\* sum of the true ranges of the bars from..to
SumTrueRanges(history, from, to) ==
    IF from > to THEN 0
    ELSE true_range(history, from) + SumTrueRanges(history, from + 1, to)

\* sum(tr_list[-effective_period:]), line 81; calculate_atr returns this sum
\* divided by effective_period, and 0 for a history of fewer than two bars.
atr_sum(history) ==
    IF Len(history) < 2 THEN 0
    ELSE SumTrueRanges(history, Len(history) - effective_period(history) + 1, Len(history))

\* candles.tail(n)
TailOf(candles, n) == SubSeq(candles, Len(candles) - n + 1, Len(candles))

\* last_n['high'].max() and last_n['low'].min()
MaxHigh(candles) ==
    CHOOSE m \in {candles[i].high : i \in DOMAIN candles} :
        \A i \in DOMAIN candles : candles[i].high <= m

MinLow(candles) ==
    CHOOSE m \in {candles[i].low : i \in DOMAIN candles} :
        \A i \in DOMAIN candles : m <= candles[i].low

\* abs(move) < atr_threshold, with atr_threshold = atr * 1.2 if atr > 0 else
\* 5.0 (line 136) and atr = atr_sum / effective_period
BelowAtrThreshold(move, history) ==
    IF atr_sum(history) > 0
    THEN 5 * effective_period(history) * Abs(move) < 6 * atr_sum(history)
    ELSE Abs(move) < 5

\* StrategyEngine.identify_swing(candles), lines 124-170
identify_swing(candles) ==
    IF Len(candles) < SWING_WINDOW THEN << >>
    ELSE
    LET last_n == TailOf(candles, SWING_WINDOW)
        current_high == MaxHigh(last_n)
        current_low == MinLow(last_n)
        window_start_price == last_n[1].open
        c == candles[Len(candles)]
        p == candles[Len(candles) - 1]
        pp == candles[Len(candles) - 2]
        ppp == candles[Len(candles) - 3]
    IN  IF /\ BelowAtrThreshold(current_high - window_start_price, candles)
           /\ BelowAtrThreshold(current_low - window_start_price, candles)
        THEN << >>
        ELSE IF /\ ppp.high = current_high
                /\ p.high < ppp.high /\ c.high < p.high /\ pp.high < ppp.high
        THEN <<[type |-> "High", price |-> current_high]>>
        ELSE IF /\ ppp.low = current_low
                /\ p.low > ppp.low /\ c.low > p.low /\ pp.low > ppp.low
        THEN <<[type |-> "Low", price |-> current_low]>>
        ELSE << >>

\* The dict save_reference_level stores, lines 490-495
LevelDict(level_type, index_price, ce_price, pe_price) ==
    [index_price |-> index_price, ce_price |-> ce_price, pe_price |-> pe_price,
     type |-> level_type]

\* A variant of line 490 that keeps the previous level next to the new one.
StoreLevelAppending(levels, level_type, level) ==
    [levels EXCEPT ![level_type] = Append(levels[level_type], level)]

\* line 490: self.reference_levels[level_type] = {...}
StoreLevel(levels, level_type, level) ==
    [levels EXCEPT ![level_type] = <<level>>]

\* StrategyEngine.save_reference_level, lines 474-496: a row of the
\* reference_levels table, then the level in memory
save_reference_level(level_type, index_price, ce_price, pe_price, ce_key, pe_key) ==
    /\ ref_rows' = Append(ref_rows,
                          [index_name |-> "NIFTY", type |-> level_type,
                           index_price |-> index_price, ce_price |-> ce_price,
                           pe_price |-> pe_price, instrument_ce |-> ce_key,
                           instrument_pe |-> pe_key])
    /\ reference_levels' = StoreLevel(reference_levels, level_type,
                                      LevelDict(level_type, index_price, ce_price, pe_price))

\* The index prices and the option prices (0: no tick of the option yet, the
\* default of lines 93-94) the db_ops thread reads.
RefIndexPrices == {100, 101}

RefCePrices == {0, 5}

RefPePrices == {7}

\* What the last identify_swing call that found a swing was given.
NoSwing == [by |-> None, type |-> None, index_price |-> 0, ce_price |-> 0, pe_price |-> 0,
            time |-> 0]

RefIdle ==
    /\ reference_levels = [t \in LevelTypes |-> << >>]
    /\ analyzer_levels = [t \in LevelTypes |-> << >>]
    /\ ref_rows = << >>
    /\ last_swing = NoSwing
    /\ swing_count = 0

\* db_ops, main.py lines 82-97, on the history of the index, the price of the
\* tick that closed the candle and the last prices of the two options.
db_ops(history, price, ce_ltp, pe_ltp) ==
    LET swing == IF Len(history) >= 5 THEN identify_swing(history) ELSE << >>
    IN  IF swing # << >>
        THEN /\ save_reference_level(swing[1].type, price, ce_ltp, pe_ltp,
                                     "NSE_FO|NIFTY_CE", "NSE_FO|NIFTY_PE")
             /\ last_swing' = [by |-> "StrategyEngine", type |-> swing[1].type,
                               index_price |-> price, ce_price |-> ce_ltp,
                               pe_price |-> pe_ltp, time |-> 0]
             /\ swing_count' = swing_count + 1
        ELSE UNCHANGED <<reference_levels, ref_rows, last_swing, swing_count>>

DbOps ==
    \E history \in SwingHistories :
        \E price \in RefIndexPrices, ce_ltp \in RefCePrices, pe_ltp \in RefPePrices :
            /\ swing_count < MaxSwings
            /\ db_ops(history, price, ce_ltp, pe_ltp)
            /\ UNCHANGED analyzer_levels
            /\ UNCHANGED nonRefVars

\* The rows of the analyzer's combined frame: the index bar of a history with
\* the closes of the two options and the bar's timestamp.
AnalyzerSubsets ==
    {[i \in DOMAIN history |->
        [ts |-> 60 * i, o_idx |-> history[i].open, h_idx |-> history[i].high,
         l_idx |-> history[i].low, c_idx |-> history[i].close,
         c_ce |-> c_ce, c_pe |-> 7]] :
        history \in SwingHistories, c_ce \in {5, 6}}

\* The index bars of a combined frame.
IndexBars(subset_df) ==
    [i \in DOMAIN subset_df |->
        [open |-> subset_df[i].o_idx, high |-> subset_df[i].h_idx,
         low |-> subset_df[i].l_idx, close |-> subset_df[i].c_idx]]

\* SymmetryAnalyzer.calculate_atr(df, window=14), lines 18-33: 0 for fewer
\* than 15 rows, else the mean of the last 14 true ranges; the sum of them.
analyzer_atr_sum(bars) ==
    IF Len(bars) < 15 THEN 0 ELSE SumTrueRanges(bars, Len(bars) - 13, Len(bars))

\* abs(move) < atr_threshold, with atr_threshold = atr * 1.5 if atr > 0 else
\* 5.0 (SymmetryAnalyzer.py line 39)
AnalyzerBelowAtrThreshold(move, bars) ==
    IF analyzer_atr_sum(bars) > 0
    THEN 28 * Abs(move) < 3 * analyzer_atr_sum(bars)
    ELSE Abs(move) < 5

\* SymmetryAnalyzer.identify_swing(subset_df), lines 35-64
analyzer_identify_swing(subset_df) ==
    IF Len(subset_df) < 15 THEN << >>
    ELSE
    LET bars == IndexBars(subset_df)
        c == bars[Len(bars)]
        p == bars[Len(bars) - 1]
        pp == bars[Len(bars) - 2]
        ppp == bars[Len(bars) - 3]
        last_n == TailOf(bars, 15)
        current_high == MaxHigh(last_n)
        current_low == MinLow(last_n)
        window_start_price == last_n[1].open
    IN  IF /\ AnalyzerBelowAtrThreshold(current_high - window_start_price, bars)
           /\ AnalyzerBelowAtrThreshold(current_low - window_start_price, bars)
        THEN << >>
        ELSE IF /\ ppp.high = current_high
                /\ pp.high < ppp.high /\ p.high < pp.high /\ c.high < p.high
        THEN <<[type |-> "High", data |-> subset_df[Len(subset_df) - 3]]>>
        ELSE IF /\ ppp.low = current_low
                /\ pp.low > ppp.low /\ p.low > pp.low /\ c.low > p.low
        THEN <<[type |-> "Low", data |-> subset_df[Len(subset_df) - 3]]>>
        ELSE << >>

\* SymmetryAnalyzer.analyze, lines 216-226: one iteration of the loop finds a
\* swing in its subset and stores the level of its kind.
analyzer_store_swing(subset) ==
    LET swing == analyzer_identify_swing(subset)
    IN  IF swing # << >>
        THEN LET l_type == swing[1].type
                 peak_data == swing[1].data
                 index_price == IF l_type = "High" THEN peak_data.h_idx ELSE peak_data.l_idx
             IN  /\ analyzer_levels' =
                        [analyzer_levels EXCEPT ![l_type] =
                            <<[index_price |-> index_price, ce_price |-> peak_data.c_ce,
                               pe_price |-> peak_data.c_pe, type |-> l_type,
                               time |-> peak_data.ts]>>]
                 /\ last_swing' = [by |-> "SymmetryAnalyzer", type |-> l_type,
                                   index_price |-> index_price, ce_price |-> peak_data.c_ce,
                                   pe_price |-> peak_data.c_pe, time |-> peak_data.ts]
                 /\ swing_count' = swing_count + 1
        ELSE UNCHANGED <<analyzer_levels, last_swing, swing_count>>

AnalyzerStoreSwing ==
    \E subset \in AnalyzerSubsets :
        /\ swing_count < MaxSwings
        /\ analyzer_store_swing(subset)
        /\ UNCHANGED <<reference_levels, ref_rows>>
        /\ UNCHANGED nonRefVars

(***************************************************************************)
(*        StrategyEngine.generate_signals: the live signal path            *)
(*                                                                         *)
(* TradingBot.handle_tick stores the tick of an instrument of the index    *)
(* in engine.current_data (lines 46-55) and aggregate_and_process then     *)
(* calls engine.generate_signals (line 139) on every tick.  The reference  *)
(* levels come from db_ops above.  Ticks carry an open interest; time is   *)
(* counted in seconds.                                                     *)
(***************************************************************************)

\* self.instruments[index_name]
instruments == [index |-> "NSE_INDEX|Nifty 50", ce |-> "NSE_FO|NIFTY_CE", pe |-> "NSE_FO|NIFTY_PE"]

\* config.CONFLUENCE_THRESHOLD = 4
CONFLUENCE_THRESHOLD == 4

\* Bound: the number of handle_tick calls.
MaxSignalTicks == 4

\* The seconds between a tick and the tick before it.
TickGaps == {1, 901}

\* The last prices of the index and of an option, and the open interests, that
\* a tick carries.
SignalIndexPrices == {99, 102}

SignalOptionPrices == {4, 6}

SignalOpenInterests == {0, 1000}

\* DataProvider.calculate_oi_delta(instrument_key, current_oi), on the oi_cache
calculate_oi_delta(cache, instrument_key, current_oi) ==
    IF instrument_key \in DOMAIN cache THEN current_oi - cache[instrument_key] ELSE 0

\* calculate_ema(idx_key, period=20, interval=5), lines 192-199: 0 for a
\* history shorter than the period.  update_candle keeps at most 10 bars of 5m
\* history, so the exponential mean of line 199 is never computed.
calculate_ema_5m(instrument_key) ==
    LET history == IF instrument_key \in DOMAIN candle_history_5m
                   THEN candle_history_5m[instrument_key] ELSE << >>
    IN  IF Len(history) < 20 THEN 0 ELSE history[Len(history)].close

\* calculate_relative_strength(option_key, index_key) > 1.2, lines 90-108 and 297
strong_rs(option_key, index_key) ==
    LET opt_history == IF option_key \in DOMAIN candle_history
                       THEN candle_history[option_key] ELSE << >>
        idx_history == IF index_key \in DOMAIN candle_history
                       THEN candle_history[index_key] ELSE << >>
        o1 == opt_history[Len(opt_history)].close
        o2 == opt_history[Len(opt_history) - 1].close
        i1 == idx_history[Len(idx_history)].close
        i2 == idx_history[Len(idx_history) - 1].close
    IN  IF Len(opt_history) < 2 \/ Len(idx_history) < 2 THEN FALSE
        ELSE IF i2 = 0 \/ 20000 * Abs(i1 - i2) < Abs(i2) THEN FALSE
        ELSE IF o2 = 0 THEN FALSE
        ELSE 5 * Abs(o1 - o2) * Abs(i2) > 6 * Abs(i1 - i2) * Abs(o2)

\* check_decay_filter(current_index_price, current_option_price, ref_level)
check_decay_filter(current_index_price, current_option_price, ref_level) ==
    IF ref_level.type = "High"
    THEN /\ current_index_price >= ref_level.index_price - 2
         /\ current_option_price > ref_level.ce_price
    ELSE /\ current_index_price <= ref_level.index_price + 2
         /\ current_option_price > ref_level.pe_price

\* A variant of check_guardrails without the tests of the opposite option's
\* price (lines 405 and 412).
check_guardrails_active_only(side, idx_data, ce_data, pe_data, ref_level) ==
    IF side = "Bullish"
    THEN \/ idx_data.ltp > ref_level.index_price /\ ce_data.ltp <= ref_level.ce_price
         \/ ce_data.oi_delta > 0
    ELSE \/ idx_data.ltp < ref_level.index_price /\ pe_data.ltp <= ref_level.pe_price
         \/ pe_data.oi_delta > 0

\* check_guardrails(side, idx_data, ce_data, pe_data, ref_level): a trap
check_guardrails(side, idx_data, ce_data, pe_data, ref_level) ==
    IF side = "Bullish"
    THEN \/ idx_data.ltp > ref_level.index_price /\ ce_data.ltp <= ref_level.ce_price
         \/ ce_data.oi_delta > 0
         \/ pe_data.ltp >= ref_level.pe_price
    ELSE \/ idx_data.ltp < ref_level.index_price /\ pe_data.ltp <= ref_level.pe_price
         \/ pe_data.oi_delta > 0
         \/ ce_data.ltp >= ref_level.ce_price

\* score += weight when the condition holds
Points(condition, weight) == IF condition THEN weight ELSE 0

\* StrategyEngine._process_signal_side up to the guardrails, lines 258-318 and
\* 325-330: the Signal the side has earned when is_valid holds
signal_candidate(side, idx_data, ce_data, pe_data, ema_5m) ==
    LET is_bull == side = "Bullish"
        ref == reference_levels[IF is_bull THEN "High" ELSE "Low"]
    IN  IF ref = << >> THEN << >>
        ELSE
        LET ref_level == ref[1]
            current_idx_price == idx_data.ltp
            active_opt_key == IF is_bull THEN instruments.ce ELSE instruments.pe
            active_opt_data == IF is_bull THEN ce_data ELSE pe_data
            opp_opt_data == IF is_bull THEN pe_data ELSE ce_data
            ref_opt_price == IF is_bull THEN ref_level.ce_price ELSE ref_level.pe_price
            ref_opp_price == IF is_bull THEN ref_level.pe_price ELSE ref_level.ce_price
            active_oi_delta == active_opt_data.oi_delta
            opp_oi_delta == opp_opt_data.oi_delta
            oi_panic == active_oi_delta < 0
            score ==
                Points(IF is_bull THEN current_idx_price > ref_level.index_price
                                  ELSE current_idx_price < ref_level.index_price, 1)
                + Points(active_opt_data.ltp > ref_opt_price, 1)
                + Points(opp_opt_data.ltp < ref_opp_price, 1)
                + Points(strong_rs(active_opt_key, instruments.index), 1)
                + Points(oi_panic, 2)
                + Points(opp_oi_delta > 0, 1)
                + Points(check_decay_filter(current_idx_price, active_opt_data.ltp, ref_level), 1)
            has_oi_data == active_opt_data.oi > 0 \/ Abs(active_oi_delta) > 0
            threshold == CONFLUENCE_THRESHOLD
            is_valid == IF has_oi_data THEN score >= threshold /\ oi_panic
                        ELSE score >= threshold - 1
        IN  IF ema_5m > 0 /\ (IF is_bull THEN current_idx_price < ema_5m
                                         ELSE current_idx_price > ema_5m)
            THEN << >>
            ELSE IF is_valid
            THEN <<[index_name |-> "NIFTY", side |-> IF is_bull THEN "BUY_CE" ELSE "BUY_PE",
                    index_price |-> current_idx_price, option_price |-> active_opt_data.ltp,
                    confluence_score |-> score]>>
            ELSE << >>

\* The guardrails of lines 321-323 void a Signal the side has earned.
guardrails_void(side, idx_data, ce_data, pe_data, ema_5m) ==
    /\ signal_candidate(side, idx_data, ce_data, pe_data, ema_5m) # << >>
    /\ check_guardrails(side, idx_data, ce_data, pe_data,
                        reference_levels[IF side = "Bullish" THEN "High" ELSE "Low"][1])

\* StrategyEngine._process_signal_side, lines 258-332: the optional Signal
process_signal_side(side, idx_data, ce_data, pe_data, ema_5m) ==
    IF guardrails_void(side, idx_data, ce_data, pe_data, ema_5m)
    THEN << >>
    ELSE signal_candidate(side, idx_data, ce_data, pe_data, ema_5m)

\* The sides whose Signal the guardrails void in a generate_signals call on the
\* current_data given; the Bearish side is processed when the Bullish side
\* returned no Signal.
sides_voided(data) ==
    IF \E k \in {instruments.index, instruments.ce, instruments.pe} : k \notin DOMAIN data
    THEN {}
    ELSE LET idx_data == data[instruments.index]
             ce_data == data[instruments.ce]
             pe_data == data[instruments.pe]
             ema_5m == calculate_ema_5m(instruments.index)
         IN  {side \in {"Bullish", "Bearish"} :
                /\ side = "Bearish" =>
                       process_signal_side("Bullish", idx_data, ce_data, pe_data, ema_5m) = << >>
                /\ guardrails_void(side, idx_data, ce_data, pe_data, ema_5m)}

\* StrategyEngine.generate_signals(instruments), lines 209-232, on the
\* current_data given: the optional Signal
generate_signals(data) ==
    IF \E k \in {instruments.index, instruments.ce, instruments.pe} : k \notin DOMAIN data
    THEN << >>
    ELSE LET idx_data == data[instruments.index]
             ce_data == data[instruments.ce]
             pe_data == data[instruments.pe]
             ema_5m == calculate_ema_5m(instruments.index)
             bull_sig == process_signal_side("Bullish", idx_data, ce_data, pe_data, ema_5m)
         IN  IF bull_sig # << >> THEN bull_sig
             ELSE process_signal_side("Bearish", idx_data, ce_data, pe_data, ema_5m)

SignalIdle ==
    /\ current_data = EmptyDict
    /\ oi_cache = EmptyDict
    /\ signal_clock = 1000
    /\ signals_emitted = << >>
    /\ voided = {}
    /\ signal_ticks = 0

\* TradingBot.handle_tick for the tick of one instrument of the index, lines
\* 39-58, and the generate_signals call of line 139; the Signal returned is
\* stamped with the time of the tick (line 141).
handle_tick(key, ltp, oi, gap) ==
    LET oi_delta == calculate_oi_delta(oi_cache, key, oi)
        data == DictPut(current_data, key, [ltp |-> ltp, oi |-> oi, oi_delta |-> oi_delta])
        signal == generate_signals(data)
    IN  /\ signal_clock' = signal_clock + gap
        /\ oi_cache' = DictPut(oi_cache, key, oi)
        /\ current_data' = data
        /\ voided' = sides_voided(data)
        /\ signals_emitted' = IF signal # << >>
                              THEN Append(signals_emitted,
                                          [time |-> signal_clock', side |-> signal[1].side,
                                           option_price |-> signal[1].option_price])
                              ELSE signals_emitted

\* A tick of one of the three instruments, gap seconds after the tick before.
HandleTickAfter(gap) ==
    /\ signal_ticks < MaxSignalTicks
    /\ signal_ticks' = signal_ticks + 1
    /\ \/ \E ltp \in SignalIndexPrices : handle_tick(instruments.index, ltp, 0, gap)
       \/ \E key \in {instruments.ce, instruments.pe}, ltp \in SignalOptionPrices,
             oi \in SignalOpenInterests : handle_tick(key, ltp, oi, gap)
    /\ UNCHANGED nonSignalVars

HandleTick == \E gap \in TickGaps : HandleTickAfter(gap)

\* Ticks that follow one another at one second.
HandleSteadyTick == \E gap \in {1} : HandleTickAfter(gap)

\* The db_ops thread confirms a swing while the index trades at 101 and the
\* two options at 5.
SignalDbOps ==
    \E history \in SwingHistories :
        /\ swing_count < MaxSwings
        /\ db_ops(history, 101, 5, 5)
        /\ UNCHANGED analyzer_levels
        /\ UNCHANGED <<execVars, flushVars, tickVars, candleVars, signalVars, trailVars, subVars, riskVars, swingVars, legVars, emitVars, bcastVars, oiVars, raceVars>>

(***************************************************************************)
(*        StrategyEngine.check_exit_condition: the trailing stop           *)
(*                                                                         *)
(* The exit evaluation of the open position of one index ("NIFTY"): the    *)
(* Exits block of the backtester loop (backtester.py lines 311-339; the    *)
(* live loop, main.py lines 176-210, has the same shape) around            *)
(* check_exit_condition (strategy.py lines 334-393).  The position is the  *)
(* one ExecutionEngine holds, the ATR is computed from the 1m candle       *)
(* history of the option the position owns.                                *)
(*                                                                         *)
(* Unit: a stop, and every price compared with one, is counted in          *)
(* 1/StopScale rupee.  An ATR is a sum of integer true ranges divided by   *)
(* a period of 1..14 and the multiplier is a number of halves, so every    *)
(* stop is an integer in this unit and the comparisons are exact.          *)
(***************************************************************************)

\* 2 * lcm(1..14): the unit of a stop is 1/StopScale rupee.
StopScale == 2 * 360360

\* self.atr_multiplier = 1.5, as a number of halves
DefaultAtrMultiplier == 3

\* The multipliers a backtest is parameterised with (1.5 and 3.0), in halves.
AtrMultipliers == {3, 6}

\* Bound: the number of exit evaluations.
MaxExitChecks == 3

\* Bound: the number of 1m bars of the options that close.
MaxTrailBars == 3

\* The option price of the signal that opens the position (rupees).
TrailEntryPrices == {3}

\* The option bars that close: both close at 3, with a range of 2 and of 4.
TrailBars ==
    {[open |-> 3, high |-> 5, low |-> 3, close |-> 3],
     [open |-> 3, high |-> 6, low |-> 2, close |-> 3]}

\* The last traded price of the active option at an evaluation; 0 is a
\* missing price.
TrailOptionPrices == {0, 3, 10}

\* The last traded price of the opposite option and of the index.
TrailOppositePrice == 5

TrailIndexPrice == 100

\* The oi_delta of the opposite option at an evaluation.
TrailOiDeltas == {0, 0 - 1}

\* StrategyEngine.calculate_atr(instrument_key), in stop units; 0 for a key
\* without history and for a history of fewer than two bars.
calculate_atr(instrument_key) ==
    LET history == IF instrument_key \in DOMAIN candle_history
                   THEN candle_history[instrument_key] ELSE << >>
    IN  IF Len(history) < 2 THEN 0
        ELSE atr_sum(history) * (StopScale \div effective_period(history))

\* self.atr_multiplier * atr, in stop units
MultiplierTimes(atr) == (atr_multiplier * atr) \div 2

\* lines 351-355: a stop that is None or 0 is initialised from the entry price
InitializedSl(current_sl, entry_price, atr) ==
    IF current_sl = << >> \/ current_sl = <<0>>
    THEN entry_price - MultiplierTimes(atr)
    ELSE current_sl[1]

\* A variant of lines 358-361 that always takes the new stop.
RatchetAlways(current_sl, new_sl) == new_sl

\* lines 358-361: the stop moves to new_sl only when new_sl is higher
Ratchet(current_sl, new_sl) == IF new_sl > current_sl THEN new_sl ELSE current_sl

\* StrategyEngine.check_exit_condition(position, idx_data, ce_data, pe_data):
\* what it returns and what it leaves in self.trailing_sl[self.index_name].
check_exit_condition(position, idx_data, ce_data, pe_data) ==
    LET side == position.side
        active_opt_data == IF side = "BUY_CE" THEN ce_data ELSE pe_data
        opp_opt_data == IF side = "BUY_CE" THEN pe_data ELSE ce_data
        entry_price == position.entry_price * StopScale
        ltp == active_opt_data.ltp * StopScale
        opt_key == IF side = "BUY_CE" THEN instruments.ce ELSE instruments.pe
        atr == calculate_atr(opt_key)
        \* 1. ATR-based trailing SL, lines 345-372
        initial_sl == InitializedSl(trailing_sl, entry_price, atr)
        current_sl == Ratchet(initial_sl, ltp - MultiplierTimes(atr))
        sl_hit == atr > 0 /\ ltp < current_sl
        locked_sl == entry_price + atr
        stored_sl == IF atr <= 0 THEN trailing_sl
                     ELSE IF ~sl_hit /\ ltp > entry_price + 3 * atr /\ locked_sl > current_sl
                          THEN <<locked_sl>>
                          ELSE <<current_sl>>
        \* 2. the opposite option's OI starts falling, lines 376-377
        oi_exit == opp_opt_data.oi_delta < 0
        \* 3. hard stop: ltp < entry_price * 0.8, lines 380-381
        hard_stop == 5 * ltp < 4 * entry_price
        \* 4. symmetry break, lines 384-391
        ref == reference_levels[IF side = "BUY_CE" THEN "High" ELSE "Low"]
        symmetry_break ==
            /\ ref # << >>
            /\ IF side = "BUY_CE"
               THEN idx_data.ltp > ref[1].index_price /\ ce_data.ltp < ref[1].ce_price
               ELSE idx_data.ltp < ref[1].index_price /\ pe_data.ltp < ref[1].pe_price
    IN  [exit |-> sl_hit \/ oi_exit \/ hard_stop \/ symmetry_break,
         trailing_sl |-> stored_sl,
         entry_price |-> entry_price, ltp |-> ltp, atr |-> atr,
         multiplier_atr |-> MultiplierTimes(atr)]

NoExitCheck ==
    [called |-> FALSE, first |-> FALSE, closed |-> FALSE, exit |-> FALSE,
     prev_sl |-> << >>, sl |-> << >>, entry_price |-> 0, ltp |-> 0, atr |-> 0,
     multiplier_atr |-> 0]

TrailIdle ==
    /\ trailing_sl = << >>
    /\ atr_multiplier = DefaultAtrMultiplier
    /\ evaluated = FALSE
    /\ last_exit_check = NoExitCheck
    /\ exit_checks = 0

\* Backtester.apply_params injects params['atr_multiplier'] into the strategy;
\* run_backtest calls it before the first bar is replayed (line 72).
SetAtrMultiplier ==
    \E m \in AtrMultipliers \ {atr_multiplier} :
        /\ positions = EmptyDict /\ trades = << >> /\ candle_history = EmptyDict
        /\ exit_checks = 0
        /\ atr_multiplier' = m
        /\ UNCHANGED <<trailing_sl, evaluated, last_exit_check, exit_checks>>
        /\ UNCHANGED <<execVars, flushVars, tickVars, candleVars, refVars, signalVars, subVars, riskVars, swingVars, legVars, emitVars, bcastVars, oiVars, raceVars>>

\* A signal is executed: the position of the index is opened, if there is none.
TrailEntry ==
    \E side \in Sides, p \in TrailEntryPrices :
        /\ "NIFTY" \notin DOMAIN positions
        /\ OpenEntries < MaxEntries
        /\ execute_signal("NIFTY", side, p)
        /\ UNCHANGED trailVars
        /\ UNCHANGED <<flushVars, tickVars, candleVars, refVars, signalVars, subVars, riskVars, swingVars, legVars, emitVars, bcastVars, oiVars, raceVars>>

\* The number of option bars closed so far.
TrailBarCount ==
    LET len(k) == IF k \in DOMAIN candle_history THEN Len(candle_history[k]) ELSE 0
    IN  len(instruments.ce) + len(instruments.pe)

\* A 1m bar of one of the two options closes and enters its history.
TrailCandle ==
    \E key \in {instruments.ce, instruments.pe}, bar \in TrailBars :
        /\ TrailBarCount < MaxTrailBars
        /\ candle_history' = update_candle(candle_history, key, bar, 20)
        /\ UNCHANGED <<wall_minute, candle_buffers, candle_buffers_5m, candle_history_5m,
                       candle_ticks>>
        /\ UNCHANGED trailVars
        /\ UNCHANGED <<execVars, flushVars, tickVars, refVars, signalVars, subVars, riskVars, swingVars, legVars, emitVars, bcastVars, oiVars, raceVars>>

\* A variant of reset_trailing_sl that leaves the stop as it was.
reset_trailing_sl_kept == trailing_sl' = trailing_sl

\* StrategyEngine.reset_trailing_sl
reset_trailing_sl == trailing_sl' = << >>

\* A variant of the test of the exit price that lets every price through.
exit_price_valid_always(exit_price) == TRUE

\* if exit_price > 0: a price of 0 is a missing price
exit_price_valid(exit_price) == exit_price > 0

\* The Exits block: the open position is evaluated; when check_exit_condition
\* returns True and the active option has a price, the position is closed
\* and the trailing stop is reset.
check_exits(active_ltp, opp_oi_delta) ==
    LET pos == positions["NIFTY"]
        active == [ltp |-> active_ltp, oi_delta |-> 0]
        opposite == [ltp |-> TrailOppositePrice, oi_delta |-> opp_oi_delta]
        idx_data == [ltp |-> TrailIndexPrice]
        ce_data == IF pos.side = "BUY_CE" THEN active ELSE opposite
        pe_data == IF pos.side = "BUY_CE" THEN opposite ELSE active
        result == check_exit_condition(pos, idx_data, ce_data, pe_data)
        exit_price == active_ltp
        closes == result.exit /\ exit_price_valid(exit_price)
    IN  /\ IF closes
           THEN close_position("NIFTY", exit_price) /\ reset_trailing_sl
           ELSE trailing_sl' = result.trailing_sl /\ UNCHANGED execVars
        /\ evaluated' = ~closes
        /\ last_exit_check' =
               [called |-> TRUE, first |-> ~evaluated, closed |-> closes,
                exit |-> result.exit, prev_sl |-> trailing_sl, sl |-> result.trailing_sl,
                entry_price |-> result.entry_price, ltp |-> result.ltp, atr |-> result.atr,
                multiplier_atr |-> result.multiplier_atr]

CheckExits ==
    \E active_ltp \in TrailOptionPrices, opp_oi_delta \in TrailOiDeltas :
        /\ exit_checks < MaxExitChecks
        /\ "NIFTY" \in DOMAIN positions
        /\ check_exits(active_ltp, opp_oi_delta)
        /\ exit_checks' = exit_checks + 1
        /\ UNCHANGED atr_multiplier
        /\ UNCHANGED <<flushVars, tickVars, candleVars, refVars, signalVars, subVars, riskVars, swingVars, legVars, emitVars, bcastVars, oiVars, raceVars>>

(***************************************************************************)
(*     Subscription rooms: subscribe / unsubscribe / handle_disconnect     *)
(*                                                                         *)
(* room_subscribers of core/data_engine.py (lines 334-396), the symbol     *)
(* mapper's reverse cache (core/symbol_mapper.py lines 120-138) and the    *)
(* strike updates of TradingBot.monitor_index (main.py lines 293-316),     *)
(* which subscribe the bot as the consumer SYMMETRY_BOT on interval "1".   *)
(* One live stream provider is registered; a call to it is recorded, what  *)
(* it does with the call is outside the repository.  The functions are     *)
(* synchronous and run on one thread, so a call is one step.               *)
(***************************************************************************)

\* The consumer id of the bot (data_provider.py lines 137 and 142).
BotSid == "SYMMETRY_BOT"

\* The socket ids of the web consumers.
ConsumerSids == {"sid_1"}

Intervals == {"1", "5"}

\* The names a web consumer subscribes by: a technical key, the same key in
\* lower case, and a human readable name.
ConsumerInputs == {"NSE_FO|NIFTY_CE", "nse_fo|nifty_ce", "RELIANCE"}

\* The instrument details get_instrument_details discovers for NIFTY: the
\* at-the-money call and put, before and after the strike moves.
BotDetails ==
    {[ce |-> "NSE_FO|NIFTY_CE", pe |-> "NSE_FO|NIFTY_PE"],
     [ce |-> "NSE_FO|NIFTY2_CE", pe |-> "NSE_FO|NIFTY2_PE"]}

\* The metadata rows the mapper can learn: hrn -> instrument_key.
LearnableMappings == [RELIANCE |-> "NSE_EQ|RELIANCE"]

\* '|' not in instrument_key and ':' not in instrument_key
is_hrn(instrument_key) == instrument_key = "RELIANCE"

\* SymbolMapper.resolve_to_key(hrn): << >> for None
resolve_to_key(hrn) ==
    IF hrn \in DOMAIN reverse_cache THEN <<reverse_cache[hrn]>> ELSE << >>

\* lines 335-342 and 367-373: upper-case, then resolve a human readable name
\* to its technical key when the mapper knows one
resolved_key(instrument_key) ==
    LET k == upper(instrument_key)
    IN  IF is_hrn(k) /\ resolve_to_key(k) # << >> THEN upper(resolve_to_key(k)[1]) ELSE k

ProviderCall(op, instrument_key, interval) ==
    [op |-> op, key |-> instrument_key, interval |-> interval]

\* subscribe_instrument(instrument_key, sid, interval), on the pair
\* st = [rooms: room_subscribers, calls: the provider calls made so far]
subscribe_instrument(st, instrument_key, sid, interval) ==
    LET k == resolved_key(instrument_key)
        key == <<k, interval>>
        sids == IF key \in DOMAIN st.rooms THEN st.rooms[key] ELSE {}
    IN  [rooms |-> DictPut(st.rooms, key, sids \cup {sid}),
         calls |-> Append(st.calls, ProviderCall("subscribe", k, interval))]

\* A variant of unsubscribe_instrument without the del of line 386: the
\* emptied room stays in room_subscribers.
unsubscribe_instrument_keep_room(st, instrument_key, sid, interval) ==
    LET k == resolved_key(instrument_key)
        key == <<k, interval>>
    IN  IF key \in DOMAIN st.rooms /\ sid \in st.rooms[key]
        THEN [rooms |-> DictPut(st.rooms, key, st.rooms[key] \ {sid}),
              calls |-> IF st.rooms[key] \ {sid} = {}
                        THEN Append(st.calls, ProviderCall("unsubscribe", k, interval))
                        ELSE st.calls]
        ELSE st

\* unsubscribe_instrument(instrument_key, sid, interval)
unsubscribe_instrument(st, instrument_key, sid, interval) ==
    LET k == resolved_key(instrument_key)
        key == <<k, interval>>
    IN  IF key \in DOMAIN st.rooms /\ sid \in st.rooms[key]
        THEN IF st.rooms[key] \ {sid} = {}
             THEN [rooms |-> DictPop(st.rooms, key),
                   calls |-> Append(st.calls, ProviderCall("unsubscribe", k, interval))]
             ELSE [rooms |-> DictPut(st.rooms, key, st.rooms[key] \ {sid}),
                   calls |-> st.calls]
        ELSE st

RECURSIVE UnsubscribeEach(_, _, _)
\* lines 395-396: unsubscribe_instrument for every room of to_cleanup
UnsubscribeEach(st, to_cleanup, sid) ==
    IF to_cleanup = {} THEN st
    ELSE LET room == CHOOSE r \in to_cleanup : TRUE
         IN  UnsubscribeEach(unsubscribe_instrument(st, room[1], sid, room[2]),
                             to_cleanup \ {room}, sid)

\* handle_disconnect(sid)
handle_disconnect(st, sid) ==
    LET to_cleanup == {room \in DOMAIN st.rooms : sid \in st.rooms[room]}
    IN  UnsubscribeEach(st, to_cleanup, sid)

RECURSIVE BotUnsubscribe(_, _)
\* DataProvider.unsubscribe(instrument_keys)
BotUnsubscribe(st, instrument_keys) ==
    IF instrument_keys = << >> THEN st
    ELSE BotUnsubscribe(unsubscribe_instrument(st, Head(instrument_keys), BotSid, "1"),
                        Tail(instrument_keys))

RECURSIVE BotSubscribe(_, _)
\* DataProvider.subscribe(instrument_keys)
BotSubscribe(st, instrument_keys) ==
    IF instrument_keys = << >> THEN st
    ELSE BotSubscribe(subscribe_instrument(st, Head(instrument_keys), BotSid, "1"),
                      Tail(instrument_keys))

\* main.py lines 305-308: the option keys of the open positions
protected_keys == UNION {{positions[i].ce_key, positions[i].pe_key} : i \in DOMAIN positions}

\* main.py lines 294-316: the instruments of the index are updated to details
monitor_index(st, details) ==
    LET old_details == bot_details
        new_keys == <<details.ce, details.pe>>
        Leaves(k) == k \notin {details.ce, details.pe} /\ k \notin protected_keys
        to_unsubscribe == IF old_details = << >> THEN << >>
                          ELSE SelectSeq(<<old_details[1].ce, old_details[1].pe>>, Leaves)
    IN  BotSubscribe(BotUnsubscribe(st, to_unsubscribe), new_keys)

NoSubCall == [op |-> None, sid |-> None, calls |-> << >>]

SubIdle ==
    /\ room_subscribers = EmptyDict
    /\ reverse_cache = EmptyDict
    /\ bot_details = << >>
    /\ last_sub_call = NoSubCall

\* The rooms as the call finds them, with no provider call made yet.
SubState == [rooms |-> room_subscribers, calls |-> << >>]

\* The call op by sid has left st.
SubReturns(op, sid, st) ==
    /\ room_subscribers' = st.rooms
    /\ last_sub_call' = [op |-> op, sid |-> sid, calls |-> st.calls]

SubscribeInstrument ==
    \E k \in ConsumerInputs, sid \in ConsumerSids, interval \in Intervals :
        /\ SubReturns("subscribe_instrument", sid,
                      subscribe_instrument(SubState, k, sid, interval))
        /\ UNCHANGED <<reverse_cache, bot_details>>
        /\ UNCHANGED nonSubVars

UnsubscribeInstrument ==
    \E k \in ConsumerInputs, sid \in ConsumerSids, interval \in Intervals :
        /\ SubReturns("unsubscribe_instrument", sid,
                      unsubscribe_instrument(SubState, k, sid, interval))
        /\ UNCHANGED <<reverse_cache, bot_details>>
        /\ UNCHANGED nonSubVars

HandleDisconnect ==
    \E sid \in ConsumerSids :
        /\ SubReturns("handle_disconnect", sid, handle_disconnect(SubState, sid))
        /\ UNCHANGED <<reverse_cache, bot_details>>
        /\ UNCHANGED nonSubVars

\* The mapper learns the key of a human readable name: _store_mapping, or a
\* metadata row that resolve_to_key finds from then on.
MapperLearns ==
    \E hrn \in DOMAIN LearnableMappings \ DOMAIN reverse_cache :
        /\ reverse_cache' = DictPut(reverse_cache, hrn, LearnableMappings[hrn])
        /\ last_sub_call' = NoSubCall
        /\ UNCHANGED <<room_subscribers, bot_details>>
        /\ UNCHANGED nonSubVars

\* monitor_index finds the at-the-money strike moved (or set for the first time).
MonitorIndex ==
    \E details \in BotDetails \ {bot_details[i] : i \in DOMAIN bot_details} :
        /\ SubReturns("monitor_index", BotSid, monitor_index(SubState, details))
        /\ bot_details' = <<details>>
        /\ UNCHANGED reverse_cache
        /\ UNCHANGED nonSubVars

\* A signal on the current instruments of the index is executed.
SubOpenPosition ==
    /\ bot_details # << >>
    /\ "NIFTY" \notin DOMAIN positions
    /\ OpenEntries < MaxEntries
    /\ OpenPositionOn("NIFTY", "BUY_CE", 3, bot_details[1].ce, bot_details[1].pe)
    /\ last_sub_call' = NoSubCall
    /\ UNCHANGED <<room_subscribers, reverse_cache, bot_details>>
    /\ UNCHANGED <<flushVars, tickVars, candleVars, refVars, signalVars, trailVars, riskVars, swingVars, legVars, emitVars, bcastVars, oiVars, raceVars>>

\* The position of the index is closed.
SubClosePosition ==
    /\ "NIFTY" \in DOMAIN positions
    /\ close_position("NIFTY", 3)
    /\ last_sub_call' = NoSubCall
    /\ UNCHANGED <<room_subscribers, reverse_cache, bot_details>>
    /\ UNCHANGED <<flushVars, tickVars, candleVars, refVars, signalVars, trailVars, riskVars, swingVars, legVars, emitVars, bcastVars, oiVars, raceVars>>

(***************************************************************************)
(*                    Risk gate: RiskManager and the Backtester            *)
(*                                                                         *)
(* Amounts are in the money unit of the ExecutionEngine.  Dates are day    *)
(* numbers.  The Backtester replays the bars of consecutive dates with one *)
(* ExecutionEngine and one RiskManager; a position stays in                *)
(* self.execution.positions from one date to the next until an exit closes *)
(* it.                                                                     *)
(***************************************************************************)

\* RiskManager(max_daily_loss=...): the threshold of the instance, in money
\* units.  The default is 50000 rupees; the instance studied has 50 rupees,
\* which one lot at the modelled option prices can lose.
max_daily_loss == 50 * MoneyScale

\* RiskManager(max_positions=4)
max_positions == 4

\* Bound: the number of dates replayed.
MaxDays == 3

\* RiskManager.__init__: daily_pnl = 0, current_date = None
NewRiskManager == [daily_pnl |-> 0, current_date |-> << >>]

NoCanTrade == [date |-> 0, count |-> 0, ret |-> FALSE]

RiskIdle ==
    /\ bt_index_name = None
    /\ risk_manager = NewRiskManager
    /\ bar_date = 1
    /\ day_realized = 0
    /\ last_can_trade = NoCanTrade

\* RiskManager.reset_if_new_day(timestamp), date = timestamp.date()
reset_if_new_day(rm, date) ==
    IF rm.current_date # <<date>>
    THEN [current_date |-> <<date>>, daily_pnl |-> 0]
    ELSE rm

\* RiskManager.can_trade(current_positions_count, timestamp): the manager after
\* the call and the first component of the pair returned.
can_trade(rm, current_positions_count, date) ==
    LET r == reset_if_new_day(rm, date)
    IN  [rm |-> r,
         ret |-> IF r.daily_pnl <= 0 - max_daily_loss THEN FALSE
                 ELSE IF current_positions_count >= max_positions THEN FALSE
                 ELSE TRUE]

\* RiskManager.update_pnl(trade_pnl)
update_pnl(rm, trade_pnl) == [rm EXCEPT !.daily_pnl = @ + trade_pnl]

\* Backtester.__init__(index_name): self.risk_manager = RiskManager()
NewBacktester ==
    \E i \in INDICES :
        /\ bt_index_name = None
        /\ bt_index_name' = i
        /\ risk_manager' = NewRiskManager
        /\ UNCHANGED <<bar_date, day_realized, last_can_trade>>
        /\ UNCHANGED nonRiskVars

\* run_backtest: the loop over date_range moves to the bars of the next date.
NextTradingDay ==
    /\ bt_index_name # None
    /\ bar_date < MaxDays
    /\ bar_date' = bar_date + 1
    /\ day_realized' = 0
    /\ UNCHANGED <<bt_index_name, risk_manager, last_can_trade>>
    /\ UNCHANGED nonRiskVars

\* run_backtest, a bar with a signal (lines 299-304): when the index has no
\* position the risk manager is asked, and the signal is executed if it allows.
BacktestEntry ==
    \E s \in Sides, p \in OptionPrices :
        /\ bt_index_name # None
        /\ OpenEntries < MaxEntries
        /\ bt_index_name \notin DOMAIN positions
        /\ LET c == can_trade(risk_manager, Cardinality(DOMAIN positions), bar_date)
           IN  /\ risk_manager' = c.rm
               /\ last_can_trade' = [date |-> bar_date,
                                     count |-> Cardinality(DOMAIN positions),
                                     ret |-> c.ret]
               /\ IF c.ret
                  THEN execute_signal(bt_index_name, s, p)
                  ELSE UNCHANGED execVars
        /\ UNCHANGED <<bt_index_name, bar_date, day_realized>>
        /\ UNCHANGED <<flushVars, tickVars, candleVars, refVars, signalVars, trailVars, subVars, swingVars, legVars, emitVars, bcastVars, oiVars, raceVars>>

\* run_backtest, a bar on which check_exit_condition returns True for the open
\* position and the option has a price (lines 329-337): the position is
\* closed, the trailing stop reset and the trade's PnL given to the manager.
BacktestExit ==
    \E p \in OptionPrices :
        /\ bt_index_name \in DOMAIN positions
        /\ close_position(bt_index_name, p)
        /\ reset_trailing_sl
        /\ risk_manager' = update_pnl(risk_manager, pnl_net(positions[bt_index_name], p))
        /\ day_realized' = day_realized + pnl_net(positions[bt_index_name], p)
        /\ UNCHANGED <<bt_index_name, bar_date, last_can_trade>>
        /\ UNCHANGED <<atr_multiplier, evaluated, last_exit_check, exit_checks>>
        /\ UNCHANGED <<flushVars, tickVars, candleVars, refVars, signalVars, subVars, swingVars, legVars, emitVars, bcastVars, oiVars, raceVars>>

(***************************************************************************)
(*                 identify_swing as a function of its candles             *)
(*                                                                         *)
(* The two identify_swing functions applied to windows of index bars; the  *)
(* call and what it returned are kept in swing_call.                       *)
(***************************************************************************)

\* The highs (= lows) of the last four bars of a window.
PullbackPrices == {10, 20, 30, 40}

\* The candles identify_swing is called on: eleven bars at 20 followed by four
\* bars at any of the prices above, and one history shorter than the window.
PullbackHistories ==
    {[i \in 1..15 |-> FlatBar(IF i <= 11 THEN 20 ELSE tail[i - 11])] :
        tail \in [1..4 -> PullbackPrices]}
    \cup {[i \in 1..14 |-> FlatBar(IF i <= 11 THEN 20 ELSE 40 - 5 * (i - 11))]}

\* A bar that opened and closed at 20.
RangeBar(high, low) == [open |-> 20, high |-> high, low |-> low, close |-> 20]

\* The highs of the peak bar of the histories below.
PeakHighs == {31, 32, 33}

\* Histories of bars with a range: eleven bars between 15 and 25, a peak bar
\* and a pullback of three lower highs.  The true ranges of the fourteen
\* last bars sum to 108 + peak, so that the average true range is 10 and the
\* threshold 12 for the peak 32, whose move from the window's opening price
\* 20 is 12.
ThresholdHistories ==
    {[i \in 1..15 |-> IF i <= 11 THEN RangeBar(25, 15)
                      ELSE IF i = 12 THEN RangeBar(peak, 15)
                      ELSE IF i = 13 THEN RangeBar(25, 15)
                      ELSE IF i = 14 THEN RangeBar(24, 16)
                      ELSE RangeBar(23, 18)] : peak \in PeakHighs}

\* No identify_swing call yet.
NoSwingCall == [by |-> None, candles |-> << >>, type |-> None]

\* The record of an identify_swing call: None for a return of None, else the
\* 'type' of the dict returned.
SwingCall(by, candles, swing) ==
    [by |-> by, candles |-> candles, type |-> IF swing = << >> THEN None ELSE swing[1].type]

SwingIdle == swing_call = NoSwingCall

\* A combined frame with the index bars of a history.
FrameOf(history) ==
    [i \in DOMAIN history |->
        [ts |-> 60 * i, o_idx |-> history[i].open, h_idx |-> history[i].high,
         l_idx |-> history[i].low, c_idx |-> history[i].close, c_ce |-> 5, c_pe |-> 7]]

\* StrategyEngine.identify_swing(candles)
IdentifySwing ==
    \E candles \in PullbackHistories \cup ThresholdHistories :
        /\ swing_call' = SwingCall("StrategyEngine", candles, identify_swing(candles))
        /\ UNCHANGED nonSwingVars

\* SymmetryAnalyzer.identify_swing(subset_df)
AnalyzerIdentifySwing ==
    \E candles \in PullbackHistories \cup ThresholdHistories :
        /\ swing_call' = SwingCall("SymmetryAnalyzer", candles,
                                   analyzer_identify_swing(FrameOf(candles)))
        /\ UNCHANGED nonSwingVars

(***************************************************************************)
(*          Leg prices of a reference level at its confirmation            *)
(*                                                                         *)
(* A swing is confirmed on the candle c, three candles after the extreme   *)
(* candle ppp.  The options have one-minute candles of their own, in       *)
(* engine.candle_history on the live path and in the columns c_ce and c_pe *)
(* of the analyzer's frame; on the live path engine.current_data holds the *)
(* last tick of each option.                                               *)
(***************************************************************************)

\* The closes of the CE option's candles and its last traded prices.
LegCePrices == {5, 6}

\* The close of every candle of the PE option and its last traded price.
LegPePrice == 7

\* Index candles that end in a confirmed swing: a peak and a trough at ppp.
LegHistories ==
    {[i \in 1..15 |-> FlatBar(IF i <= 11 THEN 20 ELSE tail[i - 11])] :
        tail \in {<<40, 30, 25, 15>>, <<5, 10, 15, 25>>}}

\* The closes of the CE option's candles next to the index candles: 5 up to
\* the candle before ppp, one price at ppp and one price after it.
LegCeCloses ==
    {[i \in 1..15 |-> IF i <= 11 THEN 5 ELSE IF i = 12 THEN at_ppp ELSE after] :
        at_ppp \in LegCePrices, after \in LegCePrices}

\* The analyzer's combined frame of index candles and option closes.
LegFrame(history, ce_closes) ==
    [i \in DOMAIN history |->
        [ts |-> 60 * i, o_idx |-> history[i].open, h_idx |-> history[i].high,
         l_idx |-> history[i].low, c_idx |-> history[i].close,
         c_ce |-> ce_closes[i], c_pe |-> LegPePrice]]

NoLegCall == [by |-> None, type |-> None, ce_close_ppp |-> 0, pe_close_ppp |-> 0]

LegIdle == leg_call = NoLegCall

\* What a confirmation is recorded as: the type found and the closes of the
\* two options on the 4th-last candle.
LegCall(by, swing, ce_closes) ==
    IF swing = << >> THEN leg_call
    ELSE [by |-> by, type |-> swing[1].type,
          ce_close_ppp |-> ce_closes[Len(ce_closes) - 3], pe_close_ppp |-> LegPePrice]

\* db_ops (main.py lines 79-97) on a candle that confirms a swing: the engine
\* holds the index candles and the option candles, current_data the last
\* tick of each option.
LegDbOps ==
    \E history \in LegHistories, ce_closes \in LegCeCloses, ce_ltp \in LegCePrices :
        /\ swing_count < MaxSwings
        /\ db_ops(history, history[Len(history)].close, ce_ltp, LegPePrice)
        /\ leg_call' = LegCall("StrategyEngine", identify_swing(history), ce_closes)
        /\ UNCHANGED analyzer_levels
        /\ UNCHANGED nonRefLegVars

\* SymmetryAnalyzer.analyze (lines 216-226) on a subset that confirms a swing
LegAnalyzerStoreSwing ==
    \E history \in LegHistories, ce_closes \in LegCeCloses :
        /\ swing_count < MaxSwings
        /\ analyzer_store_swing(LegFrame(history, ce_closes))
        /\ leg_call' = LegCall("SymmetryAnalyzer",
                               analyzer_identify_swing(LegFrame(history, ce_closes)), ce_closes)
        /\ UNCHANGED <<reference_levels, ref_rows>>
        /\ UNCHANGED nonRefLegVars

(***************************************************************************)
(*                     Broadcasting to consumer rooms                      *)
(*                                                                         *)
(* emit_event sends an event through the Socket.IO server to one room, or  *)
(* to every consumer when it is given no room.  on_message calls it with   *)
(* the rooms of an instrument; the rooms "GLOBAL" and "ALERTS" carry        *)
(* messages that are not about one instrument.                             *)
(***************************************************************************)

\* The number of emit_event calls explored.
MaxEmits == 3

\* The rooms emit_event is called with: no room, the two global rooms, an
\* instrument's technical key in both cases, and a human readable name.
EmitRooms == {None, "GLOBAL", "ALERTS", "NSE_FO|NIFTY_CE", "nse_fo|nifty_ce", "RELIANCE"}

\* The loops set_socketio is given.
EventLoops == {None, "stopped", "running"}

NoEmit == [room |-> None, ready |-> FALSE, sent |-> FALSE]

EmitIdle ==
    /\ socketio_instance = None
    /\ main_event_loop = None
    /\ emit_calls = 0
    /\ last_emit = NoEmit

\* The loop of emit_event over room_subscribers whose test is dropped: any
\* room with a subscriber counts for every room.
has_subscribers_any_room(room_key) ==
    \E key \in DOMAIN room_subscribers :
        Cardinality(room_subscribers[key]) > 0

\* The loop of emit_event over room_subscribers: some interval of room_key
\* has a subscriber.
has_subscribers(room_key) ==
    \E key \in DOMAIN room_subscribers :
        key[1] = room_key /\ Cardinality(room_subscribers[key]) > 0

\* main_event_loop and main_event_loop.is_running()
loop_is_running == main_event_loop = "running"

\* emit_event(event, data, room) with data that serialises: TRUE when it
\* hands the event to socketio_instance.emit.
emit_event(room) ==
    IF socketio_instance = None THEN FALSE
    ELSE IF room # None
            /\ ~has_subscribers(upper(room))
            /\ upper(room) \notin {"GLOBAL", "ALERTS"}
         THEN FALSE
    ELSE loop_is_running

\* set_socketio(sio, loop)
SetSocketio ==
    \E loop \in EventLoops :
        /\ socketio_instance' = "sio"
        /\ main_event_loop' = loop
        /\ UNCHANGED <<emit_calls, last_emit>>
        /\ UNCHANGED nonEmitVars

\* One call of emit_event.
EmitEvent ==
    \E room \in EmitRooms :
        /\ emit_calls < MaxEmits
        /\ emit_calls' = emit_calls + 1
        /\ last_emit' = [room |-> room,
                         ready |-> socketio_instance # None /\ loop_is_running,
                         sent |-> emit_event(room)]
        /\ UNCHANGED <<socketio_instance, main_event_loop>>
        /\ UNCHANGED nonEmitVars

(***************************************************************************)
(*                 Broadcasting an instrument's events                     *)
(*                                                                         *)
(* on_message calls emit_event for the rooms of the instrument of a        *)
(* chart_update message and of every tick it lets through: the technical   *)
(* key, the canonical key of from_upstox_key and the human readable name   *)
(* of get_hrn.  raw_tick events are throttled: none is emitted within 50   *)
(* milliseconds of the last emission.                                      *)
(***************************************************************************)

\* The instruments whose messages arrive.
BroadcastInstruments == {"NSE_FO|NIFTY_CE", "NSE_EQ|RELIANCE"}

BroadcastEvents == {"chart_update", "raw_tick"}

\* SymbolMapper.from_upstox_key(upstox_key) of a key that is in no index
\* map: upstox_key.replace('|', ':').upper()
from_upstox_key(upstox_key) ==
    IF upstox_key = "NSE_FO|NIFTY_CE" THEN "NSE_FO:NIFTY_CE" ELSE "NSE_EQ:RELIANCE"

\* SymbolMapper.get_hrn(instrument_key): the name the mapper learnt, else the
\* key with ':' for '|'
get_hrn(instrument_key) ==
    IF \E hrn \in DOMAIN reverse_cache : reverse_cache[hrn] = instrument_key
    THEN CHOOSE hrn \in DOMAIN reverse_cache : reverse_cache[hrn] = instrument_key
    ELSE from_upstox_key(instrument_key)

\* The rooms on_message calls emit_event with for one event of inst_key
\* (lines 184-192 and 307-315).
rooms_of(inst_key) ==
    LET hrn == get_hrn(inst_key)
        internal_key == from_upstox_key(inst_key)
    IN  {upper(inst_key)}
            \cup (IF internal_key # inst_key THEN {upper(internal_key)} ELSE {})
            \cup (IF hrn # inst_key /\ hrn # internal_key THEN {upper(hrn)} ELSE {})

NoBroadcast ==
    [event |-> None, instrument |-> None, rooms |-> {}, sent |-> {},
     subscribed |-> FALSE, ready |-> FALSE, throttled |-> FALSE]

BcastIdle == last_broadcast = NoBroadcast

\* on_message broadcasts one event of inst_key: a chart_update message, or
\* the tick of a message, which is throttled when it comes within 50
\* milliseconds of the last raw_tick emission.
OnMessageBroadcast ==
    \E event \in BroadcastEvents, inst_key \in BroadcastInstruments, within_50ms \in BOOLEAN :
        LET throttled == event = "raw_tick" /\ within_50ms
            rooms == rooms_of(inst_key)
        IN  /\ last_broadcast' =
                    [event |-> event, instrument |-> inst_key, rooms |-> rooms,
                     sent |-> IF throttled THEN {}
                              ELSE {room \in rooms : emit_event(room)},
                     subscribed |-> \E key \in DOMAIN room_subscribers :
                                        key[1] = inst_key /\ room_subscribers[key] # {},
                     ready |-> socketio_instance # None /\ loop_is_running,
                     throttled |-> throttled]
            /\ UNCHANGED nonBcastVars

(***************************************************************************)
(*                   Signals with and without open interest                *)
(*                                                                         *)
(* handle_tick reads the open interest of a tick with data.get('oi'): a    *)
(* tick that carries no 'oi' field has the open interest None, and         *)
(* update_data stores it as it is.  In current_data the model keeps 0 in   *)
(* the field oi of such an entry and the instrument in oi_missing.         *)
(***************************************************************************)

\* The open interest of an option's tick: << >> for a tick without the field.
TickOpenInterests == {<< >>, <<0>>, <<1000>>}

NoGenerate ==
    [outcome |-> None, signal |-> << >>, bull_candidate |-> << >>,
     bull_trap |-> FALSE, ce_oi_absent |-> FALSE]

OiIdle ==
    /\ oi_missing = {}
    /\ last_generate = NoGenerate

\* _process_signal_side(side, ...) gets as far as line 319, where
\* float(active_opt_data.get('oi', 0)) raises TypeError on None: the side has
\* a reference level and the trend filter of lines 269-271 lets it through.
float_of_oi_raises(side, idx_data, ema_5m, missing) ==
    LET is_bull == side = "Bullish"
    IN  /\ reference_levels[IF is_bull THEN "High" ELSE "Low"] # << >>
        /\ ~(ema_5m > 0 /\ (IF is_bull THEN idx_data.ltp < ema_5m
                                       ELSE idx_data.ltp > ema_5m))
        /\ (IF is_bull THEN instruments.ce ELSE instruments.pe) \in missing

\* StrategyEngine.generate_signals(instruments) on the current_data given,
\* where the entries of the instruments in missing hold 'oi': None.
generate_signals_outcome(data, missing) ==
    IF \E k \in {instruments.index, instruments.ce, instruments.pe} : k \notin DOMAIN data
    THEN [outcome |-> "returned", signal |-> << >>]
    ELSE LET idx_data == data[instruments.index]
             ce_data == data[instruments.ce]
             pe_data == data[instruments.pe]
             ema_5m == calculate_ema_5m(instruments.index)
             bull_sig == process_signal_side("Bullish", idx_data, ce_data, pe_data, ema_5m)
         IN  IF float_of_oi_raises("Bullish", idx_data, ema_5m, missing)
             THEN [outcome |-> "TypeError", signal |-> << >>]
             ELSE IF bull_sig # << >> THEN [outcome |-> "returned", signal |-> bull_sig]
             ELSE IF float_of_oi_raises("Bearish", idx_data, ema_5m, missing)
             THEN [outcome |-> "TypeError", signal |-> << >>]
             ELSE [outcome |-> "returned",
                   signal |-> process_signal_side("Bearish", idx_data, ce_data, pe_data, ema_5m)]

\* What the Bullish side of a generate_signals call on data has earned: the
\* Signal of its score, whether the guardrails call it a trap, and whether
\* the CE option has no open-interest data.
BullishSetup(data, missing) ==
    IF \E k \in {instruments.index, instruments.ce, instruments.pe} : k \notin DOMAIN data
    THEN [bull_candidate |-> << >>, bull_trap |-> FALSE, ce_oi_absent |-> FALSE]
    ELSE LET idx_data == data[instruments.index]
             ce_data == data[instruments.ce]
             pe_data == data[instruments.pe]
             ema_5m == calculate_ema_5m(instruments.index)
         IN  [bull_candidate |-> signal_candidate("Bullish", idx_data, ce_data, pe_data, ema_5m),
              bull_trap |-> guardrails_void("Bullish", idx_data, ce_data, pe_data, ema_5m),
              ce_oi_absent |-> ce_data.oi = 0 /\ ce_data.oi_delta = 0]

\* TradingBot.handle_tick for a tick of key whose open interest is oi_opt,
\* lines 39-58, and the generate_signals call of line 139.
\* calculate_oi_delta raises TypeError on None - last_oi, after it stored None.
handle_tick_oi(key, ltp, oi_opt, gap) ==
    IF oi_opt = << >> /\ key \in DOMAIN oi_cache
    THEN /\ oi_cache' = DictPop(oi_cache, key)
         /\ last_generate' = [NoGenerate EXCEPT !.outcome = "TypeError"]
         /\ signal_clock' = signal_clock + gap
         /\ UNCHANGED <<current_data, signals_emitted, voided, oi_missing>>
    ELSE
    LET oi == IF oi_opt = << >> THEN 0 ELSE oi_opt[1]
        oi_delta == IF oi_opt = << >> THEN 0 ELSE calculate_oi_delta(oi_cache, key, oi)
        data == DictPut(current_data, key, [ltp |-> ltp, oi |-> oi, oi_delta |-> oi_delta])
        missing == IF oi_opt = << >> THEN oi_missing \cup {key} ELSE oi_missing \ {key}
        result == generate_signals_outcome(data, missing)
    IN  /\ signal_clock' = signal_clock + gap
        /\ oi_cache' = IF oi_opt = << >> THEN oi_cache ELSE DictPut(oi_cache, key, oi)
        /\ current_data' = data
        /\ oi_missing' = missing
        /\ voided' = IF result.outcome = "returned" THEN sides_voided(data) ELSE {}
        /\ last_generate' =
                [outcome |-> result.outcome, signal |-> result.signal,
                 bull_candidate |-> BullishSetup(data, missing).bull_candidate,
                 bull_trap |-> BullishSetup(data, missing).bull_trap,
                 ce_oi_absent |-> BullishSetup(data, missing).ce_oi_absent]
        /\ signals_emitted' = IF result.signal # << >>
                              THEN Append(signals_emitted,
                                          [time |-> signal_clock', side |-> result.signal[1].side,
                                           option_price |-> result.signal[1].option_price])
                              ELSE signals_emitted

\* A tick of an option with or without the field 'oi', or a tick of the
\* index, which has none; one second after the tick before.
HandleTickOi ==
    /\ signal_ticks < MaxSignalTicks
    /\ signal_ticks' = signal_ticks + 1
    /\ \/ \E ltp \in SignalIndexPrices : handle_tick_oi(instruments.index, ltp, << >>, 1)
       \/ \E key \in {instruments.ce, instruments.pe}, ltp \in SignalOptionPrices,
             oi_opt \in TickOpenInterests : handle_tick_oi(key, ltp, oi_opt, 1)
    /\ UNCHANGED <<execVars, flushVars, tickVars, candleVars, refVars, trailVars, subVars, riskVars, swingVars, legVars, emitVars, bcastVars, raceVars>>

(***************************************************************************)
(*              The primary interval of a chart_update message             *)
(*                                                                         *)
(* Consumers subscribe to an instrument at several chart intervals, and    *)
(* the provider streams a chart_update for each.  on_message synthesises a *)
(* tick from a chart_update whose interval is get_primary_interval of the  *)
(* instrument.                                                             *)
(***************************************************************************)

\* The intervals consumers subscribe to and chart_update messages carry.
ChartIntervals == {"1", "5", "D"}

\* The instrument whose chart is streamed.
ChartInstrument == "NSE_EQ|RELIANCE"

\* chart_update messages of the instrument: bars of two minutes.
IntervalMessages ==
    {[type |-> "chart_update", instrumentKey |-> ChartInstrument, interval |-> interval,
      ohlcv |-> <<t, 100, 100, 100, 100, 4000 * 1000>>] :
        interval \in ChartIntervals, t \in {60, 120}}

\* A consumer subscribes to the instrument at an interval.
SubscribeChart ==
    \E sid \in ConsumerSids, interval \in ChartIntervals :
        /\ SubReturns("subscribe_instrument", sid,
                      subscribe_instrument(SubState, ChartInstrument, sid, interval))
        /\ UNCHANGED <<reverse_cache, bot_details>>
        /\ UNCHANGED nonSubVars

\* A consumer unsubscribes from the instrument at an interval.
UnsubscribeChart ==
    \E sid \in ConsumerSids, interval \in ChartIntervals :
        /\ SubReturns("unsubscribe_instrument", sid,
                      unsubscribe_instrument(SubState, ChartInstrument, sid, interval))
        /\ UNCHANGED <<reverse_cache, bot_details>>
        /\ UNCHANGED nonSubVars

\* A chart_update message of the instrument arrives.
OnChartMessage ==
    \E data \in IntervalMessages :
        /\ messages < MaxTickMessages
        /\ on_message(data)
        /\ UNCHANGED nonTickVars

(***************************************************************************)
(*                 The Exits block of the live trading loop                *)
(*                                                                         *)
(* TradingBot.aggregate_and_process evaluates the open position of the     *)
(* index on every tick (main.py lines 176-210).  It passes the bid of the  *)
(* active option to close_position as a keyword argument.                  *)
(***************************************************************************)

\* The parameters of ExecutionEngine.close_position (execution.py line 119).
close_position_parameters == {"index_name", "current_price", "timestamp", "index_price"}

\* The keyword arguments of the call at main.py line 202.
live_close_keywords == {"index_price", "bid"}

\* Python binds a call when every keyword names a parameter; otherwise the
\* call raises TypeError before the body runs.
call_binds(keywords, parameters) == keywords \subseteq parameters

\* lines 190-193: the stop of the strategy engine is copied into the position
sync_trailing_sl(pos) ==
    LET current_sl == IF trailing_sl = << >> THEN 0 ELSE trailing_sl[1]
    IN  [pos EXCEPT !.trailing_sl = current_sl]

\* The Exits block of aggregate_and_process for the open position of NIFTY.
live_check_exits(active_ltp, opp_oi_delta) ==
    LET pos == sync_trailing_sl(positions["NIFTY"])
        active == [ltp |-> active_ltp, oi_delta |-> 0]
        opposite == [ltp |-> TrailOppositePrice, oi_delta |-> opp_oi_delta]
        idx_data == [ltp |-> TrailIndexPrice]
        ce_data == IF pos.side = "BUY_CE" THEN active ELSE opposite
        pe_data == IF pos.side = "BUY_CE" THEN opposite ELSE active
        result == check_exit_condition(pos, idx_data, ce_data, pe_data)
        exit_price == active_ltp
        closes == /\ result.exit
                  /\ exit_price_valid(exit_price)
                  /\ call_binds(live_close_keywords, close_position_parameters)
    IN  /\ IF closes
           THEN /\ close_position("NIFTY", exit_price)
                /\ reset_trailing_sl
                /\ risk_manager' = update_pnl(risk_manager, pnl_net(pos, exit_price))
           ELSE /\ trailing_sl' = result.trailing_sl
                /\ positions' = DictPut(positions, "NIFTY", pos)
                /\ UNCHANGED <<trades, balance, last_call, risk_manager>>
        /\ evaluated' = ~closes
        /\ last_exit_check' =
               [called |-> TRUE, first |-> ~evaluated, closed |-> closes,
                exit |-> result.exit, prev_sl |-> trailing_sl, sl |-> result.trailing_sl,
                entry_price |-> result.entry_price, ltp |-> result.ltp, atr |-> result.atr,
                multiplier_atr |-> result.multiplier_atr]

\* A tick on which the position of NIFTY is evaluated.
LiveCheckExits ==
    \E active_ltp \in TrailOptionPrices, opp_oi_delta \in TrailOiDeltas :
        /\ exit_checks < MaxExitChecks
        /\ "NIFTY" \in DOMAIN positions
        /\ live_check_exits(active_ltp, opp_oi_delta)
        /\ exit_checks' = exit_checks + 1
        /\ UNCHANGED atr_multiplier
        /\ UNCHANGED <<bt_index_name, bar_date, day_realized, last_can_trade>>
        /\ UNCHANGED <<flushVars, tickVars, candleVars, refVars, signalVars, subVars, swingVars, legVars, emitVars, bcastVars, oiVars, raceVars>>

(***************************************************************************)
(*             on_message called by two provider threads                   *)
(*                                                                         *)
(* subscribe_instrument hands on_message to every provider of the registry *)
(* (lines 350-354) and each provider calls it from a thread of its own.    *)
(* on_message takes buffer_lock for the append of lines 319-322 only: the  *)
(* reads and the writes of last_processed_tick (lines 233-236) and of      *)
(* latest_total_volumes (lines 266, 280) are separate steps of a call,     *)
(* between which the other thread can run.  Each thread delivers one       *)
(* quote message with the feed of one instrument.                          *)
(***************************************************************************)

\* The threads of two live stream providers.
FeedThreads == {"provider_1", "provider_2"}

\* The instrument of the quote both providers deliver.
RaceInstrument == "NSE_EQ|RELIANCE"

\* The quotes an earlier message and the concurrent messages carry.
RaceQuotes ==
    {QuoteFeed(t, p, v) : t \in {6, 2 * 1000 * 1000}, p \in TickPrices,
                          v \in {4000 * 1000, 6002 * 1000}}

\* A thread that is not in on_message.
NoFeedCall == [pc |-> "idle", feed |-> << >>, prev_vol |-> 0, ltq |-> 0, result |-> None]

RaceIdle == feed_threads = [th \in FeedThreads |-> NoFeedCall]

\* The state the steps of a provider thread leave alone.
RaceFrame ==
    /\ UNCHANGED <<now, message, sym_feeds, prev_total_volumes, on_message_result>>
    /\ UNCHANGED <<persisted, messages>>
    /\ UNCHANGED <<execVars, candleVars, refVars, signalVars, trailVars, subVars, riskVars,
                   swingVars, legVars, emitVars, bcastVars, oiVars>>

\* A message with an earlier quote of the instrument is processed before
\* either provider thread delivers.
EarlierQuote ==
    \E feed \in RaceQuotes :
        /\ messages = 0
        /\ \A th \in FeedThreads : feed_threads[th].pc = "idle"
        /\ on_message([type |-> "live_feed", feeds |-> [k \in {RaceInstrument} |-> feed]])
        /\ UNCHANGED feed_threads
        /\ UNCHANGED nonTickVars

\* A provider thread calls on_message with a quote: any quote for the first
\* thread to deliver, the same quote for the other.
DeliverQuote(th) ==
    \E feed \in RaceQuotes :
        /\ feed_threads[th].pc = "idle"
        /\ \A other \in FeedThreads : feed_threads[other].feed \in {<< >>, <<feed>>}
        /\ feed_threads' = [feed_threads EXCEPT ![th].pc = "compare", ![th].feed = <<feed>>]
        /\ UNCHANGED <<last_processed_tick, latest_total_volumes, tick_buffer, workers, appended>>
        /\ RaceFrame

\* lines 233-235: the quote is compared with last_processed_tick; a quote
\* equal to it is skipped, and the call ends with nothing to append.
CompareWithPrev(th) ==
    LET feed == feed_threads[th].feed[1]
        same == SameAsPrev(last_processed_tick, RaceInstrument, safe_int(OrNow(feed.ts_ms)),
                           safe_float(feed.last_price), safe_float(feed.tv_volume))
    IN  /\ feed_threads[th].pc = "compare"
        /\ feed_threads' = IF same
                           THEN [feed_threads EXCEPT ![th].pc = "done", ![th].result = "skipped"]
                           ELSE [feed_threads EXCEPT ![th].pc = "store"]
        /\ UNCHANGED <<last_processed_tick, latest_total_volumes, tick_buffer, workers, appended>>
        /\ RaceFrame

\* line 236: last_processed_tick[inst_key] = {...}
StoreLastProcessed(th) ==
    LET feed == feed_threads[th].feed[1]
    IN  /\ feed_threads[th].pc = "store"
        /\ last_processed_tick' =
               DictPut(last_processed_tick, RaceInstrument,
                       [ts_ms |-> safe_int(OrNow(feed.ts_ms)),
                        price |-> safe_float(feed.last_price),
                        volume |-> safe_float(feed.tv_volume)])
        /\ feed_threads' = [feed_threads EXCEPT ![th].pc = "read_volume"]
        /\ UNCHANGED <<latest_total_volumes, tick_buffer, workers, appended>>
        /\ RaceFrame

\* line 266: prev_vol = latest_total_volumes.get(tracker_key, 0)
ReadPrevVolume(th) ==
    LET feed == feed_threads[th].feed[1]
        key == tracker_key(RaceInstrument, feed.interval, FALSE)
    IN  /\ feed_threads[th].pc = "read_volume"
        /\ feed_threads' = [feed_threads EXCEPT
                               ![th].pc = "write_volume",
                               ![th].prev_vol = prev_vol_of(latest_total_volumes, key)]
        /\ UNCHANGED <<last_processed_tick, latest_total_volumes, tick_buffer, workers, appended>>
        /\ RaceFrame

\* lines 268-296: the delta from the volume read, latest_total_volumes
\* written, the heartbeat and the clamp
WriteVolume(th) ==
    LET feed == feed_threads[th].feed[1]
        key == tracker_key(RaceInstrument, feed.interval, FALSE)
        curr_vol == safe_float(feed.tv_volume)
        delta_vol == clamp_extreme(
                         index_heartbeat(volume_delta(FALSE, curr_vol, feed_threads[th].prev_vol),
                                         RaceInstrument, FALSE, ts_val_of(feed.ts_ms),
                                         last_processed_tick),
                         RaceInstrument)
    IN  /\ feed_threads[th].pc = "write_volume"
        /\ latest_total_volumes' = DictPut(latest_total_volumes, key, curr_vol)
        /\ feed_threads' = [feed_threads EXCEPT ![th].pc = "append",
                                                ![th].ltq = safe_int(delta_vol)]
        /\ UNCHANGED <<last_processed_tick, tick_buffer, workers, appended>>
        /\ RaceFrame

\* lines 319-322: the tick is appended under buffer_lock, and the call ends.
AppendTick(th) ==
    /\ feed_threads[th].pc = "append"
    /\ ExtendBuffer(<<Block(appended + 1, appended + 1)>>)
    /\ appended' = appended + 1
    /\ feed_threads' = [feed_threads EXCEPT ![th].pc = "done", ![th].result = "appended"]
    /\ UNCHANGED <<last_processed_tick, latest_total_volumes>>
    /\ RaceFrame

ProviderThreadStep ==
    \E th \in FeedThreads :
        \/ DeliverQuote(th)
        \/ CompareWithPrev(th)
        \/ StoreLastProcessed(th)
        \/ ReadPrevVolume(th)
        \/ WriteVolume(th)
        \/ AppendTick(th)

(***************************************************************************)
(*                           Specifications                                *)
(***************************************************************************)

\* The state after construction: every component idle.
Idle ==
    /\ ExecIdle /\ FlushIdle /\ TickIdle /\ CandleIdle /\ RefIdle /\ SignalIdle
    /\ TrailIdle /\ SubIdle /\ RiskIdle /\ SwingIdle /\ LegIdle /\ EmitIdle /\ BcastIdle /\ OiIdle /\ RaceIdle

InitExec == Idle

NextExec == ExecuteSignal \/ ClosePosition

SpecExec == InitExec /\ [][NextExec]_vars

InitFlush == Idle

NextFlush ==
    \/ OnMessageAppend /\ UNCHANGED nonFlushVars
    \/ TimerFires /\ UNCHANGED nonFlushVars
    \/ FlushStep /\ UNCHANGED nonFlushVars

SpecFlush == InitFlush /\ [][NextFlush]_vars

\* The threads that run flush_tick_buffer: the timer thread and at most one
\* size-triggered thread for every message.
FlushThreads == 0..MaxMessages

\* The steps of thread w that the scheduler alone decides: entering the lock
\* for the swap or the put-back, and waking from the sleep before a retry.
ThreadRuns(w) ==
    /\ w \in DOMAIN workers
    /\ SwapBuffer(w) \/ RetryAfterSleep(w) \/ PutBack(w)
    /\ UNCHANGED nonFlushVars

\* The insert of thread w succeeds.
ThreadInserts(w) ==
    /\ w \in DOMAIN workers
    /\ InsertSucceeds(w)
    /\ UNCHANGED nonFlushVars

\* Every thread keeps running, the timer keeps firing every ten seconds, and
\* an insert that is attempted again and again does not fail for ever.
FlushFairness ==
    /\ WF_vars(TimerFires /\ UNCHANGED nonFlushVars)
    /\ \A w \in FlushThreads : WF_vars(ThreadRuns(w)) /\ SF_vars(ThreadInserts(w))

SpecFlushLive == InitFlush /\ [][NextFlush]_vars /\ FlushFairness

InitTick == Idle

NextTick == OnMessage \/ ClockTick

SpecTick == InitTick /\ [][NextTick]_vars

InitIngest == Idle

NextIngest == OnGoodMessage \/ OnFaultyMessage

SpecIngest == InitIngest /\ [][NextIngest]_vars

InitCandle == Idle

NextCandle == AggregateAndProcess \/ MinutePasses

SpecCandle == InitCandle /\ [][NextCandle]_vars

InitRef == Idle

NextRef == DbOps \/ AnalyzerStoreSwing

SpecRef == InitRef /\ [][NextRef]_vars

InitSignal == Idle

NextSignal == HandleTick \/ SignalDbOps

SpecSignal == InitSignal /\ [][NextSignal]_vars

InitGuard == Idle

NextGuard == HandleSteadyTick \/ SignalDbOps

SpecGuard == InitGuard /\ [][NextGuard]_vars

InitTrail == Idle

NextTrail == SetAtrMultiplier \/ TrailEntry \/ TrailCandle \/ CheckExits

SpecTrail == InitTrail /\ [][NextTrail]_vars

InitSub == Idle

NextSub ==
    \/ SubscribeInstrument \/ UnsubscribeInstrument \/ HandleDisconnect
    \/ MapperLearns \/ MonitorIndex \/ SubOpenPosition \/ SubClosePosition

SpecSub == InitSub /\ [][NextSub]_vars

InitRisk == Idle

NextRisk == NewBacktester \/ NextTradingDay \/ BacktestEntry \/ BacktestExit

SpecRisk == InitRisk /\ [][NextRisk]_vars

InitSwing == Idle

NextSwing == IdentifySwing \/ AnalyzerIdentifySwing

SpecSwing == InitSwing /\ [][NextSwing]_vars

InitLeg == Idle

NextLeg == LegDbOps \/ LegAnalyzerStoreSwing

SpecLeg == InitLeg /\ [][NextLeg]_vars

InitEmit == Idle

NextEmit ==
    \/ SetSocketio
    \/ EmitEvent
    \/ SubscribeInstrument
    \/ UnsubscribeInstrument
    \/ HandleDisconnect
    \/ MapperLearns

SpecEmit == InitEmit /\ [][NextEmit]_vars

InitBroadcast == Idle

NextBroadcast ==
    \/ SetSocketio
    \/ SubscribeInstrument
    \/ UnsubscribeInstrument
    \/ MapperLearns
    \/ OnMessageBroadcast

SpecBroadcast == InitBroadcast /\ [][NextBroadcast]_vars

InitOi == Idle

NextOi == HandleTickOi \/ SignalDbOps

SpecOi == InitOi /\ [][NextOi]_vars

InitPrimary == Idle

NextPrimary == SubscribeChart \/ UnsubscribeChart \/ OnChartMessage

SpecPrimary == InitPrimary /\ [][NextPrimary]_vars

InitLiveExit == Idle

NextLiveExit == TrailEntry \/ TrailCandle \/ LiveCheckExits

SpecLiveExit == InitLiveExit /\ [][NextLiveExit]_vars

InitRace == Idle

NextRace == EarlierQuote \/ ProviderThreadStep

SpecRace == InitRace /\ [][NextRace]_vars

InitAlign == Idle

NextAlign == AggregateAndProcess \/ MinutePassesAlign

SpecAlign == InitAlign /\ [][NextAlign]_vars

(***************************************************************************)
(*                              Properties                                 *)
(***************************************************************************)

\* The trade rows of an index that are open.
OpenTrades(index_name) ==
    {k \in 1..Len(trades) : trades[k].index_name = index_name /\ trades[k].status = "OPEN"}

\* C1: at most one open position per index.  After any sequence of
\* execute_signal and close_position calls every index has at most one OPEN
\* trade row, and it has one exactly when the engine holds a position for it
\* (that position pointing at the row); and an execute_signal call for an index
\* that already holds a position returns None and changes neither the
\* positions, nor the trade records, nor the balance.
C1_OnePositionPerIndex ==
    /\ [](\A i \in INDICES :
            /\ Cardinality(OpenTrades(i)) <= 1
            /\ (i \in DOMAIN positions) <=> (OpenTrades(i) # {})
            /\ i \in DOMAIN positions => OpenTrades(i) = {positions[i].trade_id})
    /\ [][\A i \in INDICES :
            (i \in DOMAIN positions /\ last_call'.op = "execute_signal" /\ last_call'.index_name = i)
                => /\ last_call'.ret = None
                   /\ UNCHANGED <<positions, trades, balance>>]_vars

\* C1 witness: an execute_signal call has just been refused for an index that
\* holds a position, while the other index holds one too.
C1_Witness ==
    /\ last_call.op = "execute_signal"
    /\ last_call.ret = None
    /\ DOMAIN positions = INDICES

\* The ticks some flush thread holds in its to_insert.
HeldByWorkers == UNION {TicksOf(workers[w].to_insert) : w \in DOMAIN workers}

\* C2: no tick is lost.  Under any interleaving of on_message appends, the
\* timer flush and the size-triggered flushes, and any pattern of insert
\* failures, every tick appended so far is in the live buffer, in the batch
\* held by a flush thread, or persisted.
C2_NoTickLost ==
    \A t \in 1..appended :
        \/ t \in TicksOf(tick_buffer)
        \/ t \in HeldByWorkers
        \/ t \in TicksOf(persisted)

\* C2 witness: a flush has returned its batch to the buffer after the last
\* failed attempt, a size-triggered flush thread has been started, and every
\* tick appended in two messages has since been persisted.
C2_Witness ==
    /\ \E w \in DOMAIN workers : workers[w].result = "returned"
    /\ SizeWorkers # {}
    /\ appended >= TICK_BATCH_SIZE
    /\ TicksOf(persisted) = 1..appended

\* An on_message call that is fed the quote message of the call before it.
QuoteRepeated ==
    /\ messages' = messages + 1
    /\ message.type = "live_feed"
    /\ message' = message

\* C3: deduplication is idempotent.  When on_message is fed the identical
\* quote message twice in a row (same instrument, timestamp, price and
\* cumulative volume), whatever the timestamp, zero included, the second call
\* appends no tick to the buffer and leaves the cumulative-volume trackers as
\* they are: the two calls append one tick and produce one volume delta.
C3_DedupIdempotent ==
    [][QuoteRepeated =>
        /\ sym_feeds' = EmptyDict
        /\ appended' = appended
        /\ latest_total_volumes' = latest_total_volumes]_vars

\* The same for the quote messages whose timestamps are not zero.
DedupNonZeroTimestamp ==
    [][(QuoteRepeated /\ \A k \in DOMAIN message.feeds : message.feeds[k].ts_ms # 0) =>
        /\ sym_feeds' = EmptyDict
        /\ appended' = appended
        /\ latest_total_volumes' = latest_total_volumes]_vars

\* C4: the traded quantity is never negative.  Every tick on_message appends,
\* after any cumulative-volume readings (rising, falling, repeated; from a
\* quote or from a candle; of an index or not), carries ltq >= 0.
C4_LtqNonNegative ==
    \A k \in DOMAIN sym_feeds : sym_feeds[k].ltq >= 0

\* C4 witness: a quote tick was appended whose cumulative volume is below the
\* one stored for its daily tracker, and its ltq is 0.
C4_Witness ==
    \E k \in DOMAIN sym_feeds :
        /\ sym_feeds[k].source = "tv_wss"
        /\ <<k, "daily">> \in DOMAIN prev_total_volumes
        /\ sym_feeds[k].tv_volume < prev_total_volumes[<<k, "daily">>]
        /\ sym_feeds[k].ltq = 0

\* The candle ticks of the last call whose reading is below half of the
\* cumulative volume stored for their (instrument, interval) tracker.
ResetTicks ==
    {k \in DOMAIN sym_feeds :
        /\ sym_feeds[k].source = "tv_chart_fallback"
        /\ <<k, sym_feeds[k].interval, "candle">> \in DOMAIN prev_total_volumes
        /\ 2 * sym_feeds[k].tv_volume < prev_total_volumes[<<k, sym_feeds[k].interval, "candle">>]}

FinalizedCandles ==
    UNION {{candle_history[k][n] : n \in 1..Len(candle_history[k])} : k \in DOMAIN candle_history}
    \cup
    UNION {{candle_history_5m[k][n] : n \in 1..Len(candle_history_5m[k])} :
                k \in DOMAIN candle_history_5m}

\* C6: candle invariants.  Every finalized candle aggregate_and_process hands
\* to the strategy engine, a 1-minute bar or a derived 5-minute bar, has
\* low <= open <= high and low <= close <= high, for any sequence of tick
\* prices and minute boundaries.
C6_CandleInvariants ==
    \A c \in FinalizedCandles :
        /\ c.low <= c.open /\ c.open <= c.high
        /\ c.low <= c.close /\ c.close <= c.high

\* C6 witness: a 5-minute bar was finalized whose open lies strictly between
\* its low and its high (it took 1-minute bars above and below its first one),
\* and so was a 1-minute bar whose high is above its low.
C6_Witness ==
    /\ \E k \in DOMAIN candle_history_5m : \E n \in 1..Len(candle_history_5m[k]) :
            LET c == candle_history_5m[k][n] IN c.low < c.open /\ c.open < c.high
    /\ \E k \in DOMAIN candle_history : \E n \in 1..Len(candle_history[k]) :
            candle_history[k][n].low < candle_history[k][n].high

\* The other kind of level.
OtherType(t) == IF t = "High" THEN "Low" ELSE "High"

\* The level the swing recorded in last_swing is stored as.
SwingLevel(swing) ==
    IF swing.by = "StrategyEngine"
    THEN [index_price |-> swing.index_price, ce_price |-> swing.ce_price,
          pe_price |-> swing.pe_price, type |-> swing.type]
    ELSE [index_price |-> swing.index_price, ce_price |-> swing.ce_price,
          pe_price |-> swing.pe_price, type |-> swing.type, time |-> swing.time]

\* C7: reference-level freshness.  At any time the strategy engine of an
\* index, and likewise the analyzer, holds at most one current High and at
\* most one current Low reference level; and a call that confirms a new swing
\* of one kind leaves in its store exactly the new level as the level of that
\* kind (the previous one is replaced, no second one is kept) and leaves the
\* level of the other kind as it was.
C7_ReferenceLevelFreshness ==
    /\ [](\A t \in LevelTypes :
            Len(reference_levels[t]) <= 1 /\ Len(analyzer_levels[t]) <= 1)
    /\ [][swing_count' = swing_count + 1 =>
            LET t == last_swing'.type
            IN  IF last_swing'.by = "StrategyEngine"
                THEN /\ reference_levels'[t] = <<SwingLevel(last_swing')>>
                     /\ reference_levels'[OtherType(t)] = reference_levels[OtherType(t)]
                     /\ analyzer_levels' = analyzer_levels
                ELSE /\ analyzer_levels'[t] = <<SwingLevel(last_swing')>>
                     /\ analyzer_levels'[OtherType(t)] = analyzer_levels[OtherType(t)]
                     /\ reference_levels' = reference_levels]_vars

\* C7 witness: the engine has confirmed three swings, the last one a High that
\* replaced a different High level (the rows of the table keep both) while the
\* Low level confirmed first is still the current Low.
C7_Witness ==
    /\ Len(ref_rows) = 3
    /\ ref_rows[1].type = "Low" /\ ref_rows[2].type = "High" /\ ref_rows[3].type = "High"
    /\ ref_rows[2].index_price # ref_rows[3].index_price
    /\ reference_levels["High"] = <<LevelDict("High", ref_rows[3].index_price,
                                               ref_rows[3].ce_price, ref_rows[3].pe_price)>>
    /\ reference_levels["Low"] = <<LevelDict("Low", ref_rows[1].index_price,
                                              ref_rows[1].ce_price, ref_rows[1].pe_price)>>

\* C8: cooldown.  For one index no signal, of either side, is emitted fewer
\* than 900 seconds after any of the last 3 signals emitted before it, on
\* every sequence of updates.
C8_Cooldown ==
    \A j \in 1..Len(signals_emitted) :
        \A i \in 1..(j - 1) :
            i >= j - 3 => signals_emitted[j].time - signals_emitted[i].time >= 900

(***************************************************************************)
(* C9, C10: the trailing stop                                              *)
(***************************************************************************)

\* C9 (as stated): while the position stays open, the stored trailing stop
\* never decreases from one exit evaluation to the next: an evaluation that
\* found a stop stored and left the position open leaves a stop that is not
\* lower.
C9_TrailingStopMonotone ==
    LET c == last_exit_check
    IN  (c.called /\ ~c.closed /\ c.prev_sl # << >> /\ c.sl # << >>)
            => c.sl[1] >= c.prev_sl[1]

C11_ProtectedNeverUnsubscribed ==
    \A n \in 1..Len(last_sub_call.calls) :
        last_sub_call.calls[n].op = "unsubscribe"
            => last_sub_call.calls[n].key \notin protected_keys

\* C12 (as stated): after handle_disconnect(sid) returns, sid is a member of
\* no (instrument, interval) room.
C12_DisconnectCascade ==
    last_sub_call.op = "handle_disconnect"
        => \A room \in DOMAIN room_subscribers :
               last_sub_call.sid \notin room_subscribers[room]

(***************************************************************************)
(* C13: bounded retry                                                      *)
(***************************************************************************)

\* C13: one flush_tick_buffer invocation calls the insert at most max_retries
\* (3) times for its batch and gives up only after the last of them; a
\* successful attempt ends the invocation with the batch persisted and the
\* buffer untouched; after the last failure the whole batch is put back in
\* front of the ticks buffered meanwhile and the invocation returns.
C13_BoundedRetry ==
    /\ [](\A w \in DOMAIN workers :
            /\ workers[w].attempt <= max_retries - 1
            /\ workers[w].pc = "putback" => workers[w].attempt = max_retries - 1)
    /\ [][\A w \in DOMAIN workers :
            /\ (workers[w].pc = "insert" /\ workers'[w].pc = AfterFlush(w))
                   => /\ persisted' = persisted \o workers[w].to_insert
                      /\ tick_buffer' = tick_buffer
                      /\ workers'[w].to_insert = << >>
            /\ (workers[w].pc = "putback" /\ workers'[w].pc # "putback")
                   => /\ tick_buffer' = workers[w].to_insert \o tick_buffer
                      /\ workers'[w].pc = AfterFlush(w)
                      /\ persisted' = persisted]_vars

\* A batch failed three times and was put back in front of a tick that was
\* buffered during the retries.
C13_Witness ==
    \E w \in DOMAIN workers :
        /\ workers[w].result = "returned"
        /\ workers[w].attempt = max_retries - 1
        /\ workers[w].pc = AfterFlush(w)
        /\ Len(tick_buffer) = 2
        /\ tick_buffer[1].first = 1
        /\ tick_buffer[2].first > tick_buffer[1].last

(***************************************************************************)
(* C14: ingestion is never fatal                                           *)
(***************************************************************************)

\* C14: on_message never raises to its caller; a message whose processing
\* met an exception is dropped (none of its ticks is appended, the error is
\* logged); and a well-formed message is processed whatever came before it:
\* every tick it yields is appended to the buffer.
C14_NeverFatal ==
    /\ [](~on_message_result.raised)
    /\ [][messages' = messages + 1 =>
            /\ on_message_result'.error =>
                   appended' = appended /\ tick_buffer' = tick_buffer
            /\ on_message_result'.fault = None =>
                   /\ ~on_message_result'.error
                   /\ appended' = appended + Cardinality(DOMAIN sym_feeds')
                   /\ NumTicks(tick_buffer') = NumTicks(tick_buffer)
                                                  + Cardinality(DOMAIN sym_feeds')]_vars

\* A message was dropped on an exception and the next, well-formed, message
\* has appended its tick.
C14_Witness ==
    /\ on_message_result.fault = None
    /\ on_message_result.after_error
    /\ ~on_message_result.error
    /\ DOMAIN sym_feeds # {}
    /\ appended = Cardinality(DOMAIN sym_feeds)

\* C15: a step that opens a position follows a can_trade call of the same bar
\* that allowed it, leaves at most max_positions positions open, and is not
\* taken while the PnL realized on the bar's date is at or below
\* -max_daily_loss.
C15_RiskGate ==
    [][Cardinality(DOMAIN positions') > Cardinality(DOMAIN positions) =>
          /\ last_can_trade'.ret
          /\ last_can_trade'.date = bar_date
          /\ Cardinality(DOMAIN positions') <= max_positions
          /\ day_realized > 0 - max_daily_loss]_vars

\* C16: swing confirmation.  Whenever identify_swing (of the strategy engine
\* or of the analyzer) has been called on a window whose move passed the
\* magnitude filter, it returned a High wall if and only if the high of the
\* 4th-last candle is the maximum of the window and the highs of the three
\* candles after it fall strictly one below the other; and a Low wall if and
\* only if the mirror condition holds on the lows.
C16_SwingConfirmation ==
    (/\ swing_call.by # None
     /\ Len(swing_call.candles) >= SWING_WINDOW
     /\ LET last_n == TailOf(swing_call.candles, SWING_WINDOW)
        IN  IF swing_call.by = "StrategyEngine"
            THEN ~(/\ BelowAtrThreshold(MaxHigh(last_n) - last_n[1].open, swing_call.candles)
                   /\ BelowAtrThreshold(MinLow(last_n) - last_n[1].open, swing_call.candles))
            ELSE ~(/\ AnalyzerBelowAtrThreshold(MaxHigh(last_n) - last_n[1].open,
                                                swing_call.candles)
                   /\ AnalyzerBelowAtrThreshold(MinLow(last_n) - last_n[1].open,
                                                swing_call.candles)))
    => LET candles == swing_call.candles
           last_n == TailOf(candles, SWING_WINDOW)
           c == candles[Len(candles)]
           p == candles[Len(candles) - 1]
           pp == candles[Len(candles) - 2]
           ppp == candles[Len(candles) - 3]
       IN  /\ swing_call.type = "High" <=>
                  /\ ppp.high = MaxHigh(last_n)
                  /\ pp.high < ppp.high /\ p.high < pp.high /\ c.high < p.high
           /\ swing_call.type = "Low" <=>
                  /\ ppp.low = MinLow(last_n)
                  /\ pp.low > ppp.low /\ p.low > pp.low /\ c.low > p.low

\* C17: leg prices frozen at the extreme.  The reference level stored for the
\* swing confirmed last carries, as its two leg prices, the closes of the two
\* options on candle ppp, where the extreme occurred.
C17_LegPricesAtExtreme ==
    leg_call.by # None =>
        LET levels == IF leg_call.by = "StrategyEngine"
                      THEN reference_levels ELSE analyzer_levels
            level == levels[leg_call.type][1]
        IN  /\ level.ce_price = leg_call.ce_close_ppp
            /\ level.pe_price = leg_call.pe_close_ppp

\* C18: guardrail veto.  A tick on which a Signal is emitted never finds the
\* index past the reference level of the signal's side with the active option
\* not above its price at the level, nor the opposite option at or above its
\* own price at the level.
C18_GuardrailVeto ==
    [][Len(signals_emitted') > Len(signals_emitted) =>
          LET is_bull == signals_emitted'[Len(signals_emitted')].side = "BUY_CE"
              ref_level == reference_levels'[IF is_bull THEN "High" ELSE "Low"][1]
              idx == current_data'[instruments.index].ltp
              ce == current_data'[instruments.ce].ltp
              pe == current_data'[instruments.pe].ltp
          IN  IF is_bull
              THEN /\ ~(idx > ref_level.index_price /\ ce <= ref_level.ce_price)
                   /\ pe < ref_level.pe_price
              ELSE /\ ~(idx < ref_level.index_price /\ pe <= ref_level.pe_price)
                   /\ ce < ref_level.ce_price]_vars

\* C18 witness: on the last tick the Bullish side had earned a Signal with the
\* index past the High level and the CE option above its price at the level,
\* the PE option had not fallen below its own price at the level, and the
\* guardrails voided the Signal: nothing was emitted.
C18_Witness ==
    /\ voided = {"Bullish"}
    /\ generate_signals(current_data) = << >>
    /\ current_data[instruments.index].ltp > reference_levels["High"][1].index_price
    /\ current_data[instruments.ce].ltp > reference_levels["High"][1].ce_price
    /\ current_data[instruments.ce].oi_delta <= 0
    /\ current_data[instruments.pe].ltp >= reference_levels["High"][1].pe_price

\* C19: volume deltas of a candle-sourced counter.  For a candle tick of the
\* last call, the first reading seen for its (instrument, interval) tracker
\* yields the delta 0, a later reading with curr >= prev yields curr - prev,
\* and a reading with curr < prev * 0.5 yields curr.  Stated for the ticks the
\* heartbeat and the clamp leave alone: an instrument that is no index and a
\* delta of at most 5,000,000.
C19_CandleVolumeDeltas ==
    \A k \in DOMAIN sym_feeds :
        LET tick == sym_feeds[k]
            key == <<k, tick.interval, "candle">>
            curr == tick.tv_volume
            prev == prev_total_volumes[key]
        IN  (tick.source = "tv_chart_fallback" /\ ~is_index(k)) =>
                IF key \notin DOMAIN prev_total_volumes THEN tick.ltq = 0
                ELSE IF curr >= prev
                     THEN curr - prev <= 5000000 => tick.ltq = curr - prev
                     ELSE (2 * curr < prev /\ curr <= 5000000) => tick.ltq = curr

C21_ThreeRoomBroadcast ==
    (/\ last_broadcast.event # None
     /\ last_broadcast.subscribed
     /\ last_broadcast.ready
     /\ ~last_broadcast.throttled)
        => last_broadcast.sent = last_broadcast.rooms

\* C22: a Signal returned while the active option has open-interest data has
\* a score of at least the threshold and a falling open interest of that
\* option; and a Bullish side that reached the reduced threshold with no
\* open-interest data for the CE option, and that the guardrails do not call
\* a trap, returns a BUY_CE Signal.
C22_ThresholdByOiPresence ==
    /\ last_generate.signal # << >> =>
            LET signal == last_generate.signal[1]
                active == current_data[IF signal.side = "BUY_CE" THEN instruments.ce
                                                                 ELSE instruments.pe]
            IN  (active.oi > 0 \/ active.oi_delta # 0) =>
                    signal.confluence_score >= CONFLUENCE_THRESHOLD /\ active.oi_delta < 0
    /\ (/\ last_generate.bull_candidate # << >>
        /\ last_generate.ce_oi_absent
        /\ ~last_generate.bull_trap)
            => /\ last_generate.signal # << >>
               /\ last_generate.signal[1].side = "BUY_CE"

\* C23: an evaluation closes the position only at a price above 0 of the
\* active option; an evaluation whose exit condition holds at the price 0
\* leaves the position open and records no trade, so that the next update
\* evaluates it again.
C23_NoExitOnMissingData ==
    [][exit_checks' = exit_checks + 1 =>
        /\ last_exit_check'.closed => last_exit_check'.ltp > 0
        /\ "NIFTY" \notin DOMAIN positions' => last_exit_check'.ltp > 0
        /\ (last_exit_check'.exit /\ last_exit_check'.ltp = 0) =>
                /\ "NIFTY" \in DOMAIN positions'
                /\ positions' = positions
                /\ trades' = trades
                /\ balance' = balance]_vars

\* The exit condition held twice at the price 0 and the position is open.
C23_Witness ==
    /\ exit_checks >= 2
    /\ last_exit_check.exit
    /\ last_exit_check.ltp = 0
    /\ ~last_exit_check.first
    /\ ~last_exit_check.closed
    /\ "NIFTY" \in DOMAIN positions

\* The intervals at which the instrument has a room that counts: a number of
\* minutes, or a day.
SubscribedMinutes ==
    {interval_minutes(interval) :
        interval \in {i \in ChartIntervals : <<ChartInstrument, i>> \in DOMAIN room_subscribers}}

\* In the subscription state as it is, no two chart_update messages of the
\* instrument with different intervals both yield a tick.
OnePrimaryInterval ==
    \A m1, m2 \in IntervalMessages :
        m1.interval # m2.interval =>
            ~(/\ DOMAIN ChartFeeds(m1, EmptyDict).feeds_map # {}
              /\ DOMAIN ChartFeeds(m2, EmptyDict).feeds_map # {})

\* C24 as stated: a chart_update message yields a tick only when its
\* interval is the smallest interval subscribed for the instrument, and no two
\* intervals both yield ticks in one subscription state.
C24_MostGranularInterval ==
    [][/\ OnePrimaryInterval'
       /\ (messages' = messages + 1 /\ DOMAIN sym_feeds' # {}) =>
                /\ <<ChartInstrument, message'.interval>> \in DOMAIN room_subscribers
                /\ \A n \in SubscribedMinutes : interval_minutes(message'.interval) <= n]_vars

\* C24, amended: a chart_update message yields a tick only when its interval
\* is the smallest interval subscribed for the instrument, or is "1" while
\* no interval is subscribed; and no two intervals both yield ticks in one
\* subscription state.
C24_PrimaryInterval ==
    [][/\ OnePrimaryInterval'
       /\ (messages' = messages + 1 /\ DOMAIN sym_feeds' # {}) =>
                /\ \/ <<ChartInstrument, message'.interval>> \in DOMAIN room_subscribers
                   \/ SubscribedMinutes = {} /\ message'.interval = "1"
                /\ \A n \in SubscribedMinutes : interval_minutes(message'.interval) <= n]_vars

\* With the intervals "1" and "5" subscribed, a chart_update of "1" yielded a
\* tick after one of "5" had yielded none.
C24_Witness ==
    /\ {"1", "5"} \subseteq {k[2] : k \in DOMAIN room_subscribers}
    /\ messages = 2
    /\ message.interval = "1"
    /\ DOMAIN sym_feeds # {}
    /\ DOMAIN prev_total_volumes = {}

\* C25: an evaluation of the open position in which check_exit_condition
\* holds at a price above 0 of the active option removes the position, marks
\* its trade CLOSED, resets the trailing stop and adds the realised PnL to
\* the daily PnL of the risk manager.
C25_ExitClosesPosition ==
    [][(/\ exit_checks' = exit_checks + 1
        /\ last_exit_check'.exit
        /\ last_exit_check'.ltp > 0) =>
            /\ "NIFTY" \notin DOMAIN positions'
            /\ Len(trades') = Len(trades) + 1
            /\ trades'[positions["NIFTY"].trade_id].status = "CLOSED"
            /\ trailing_sl' = << >>
            /\ risk_manager'.daily_pnl = risk_manager.daily_pnl + trades'[Len(trades')].pnl]_vars

\* C26: with the timer thread and the flush threads running and inserts
\* that do not fail for ever, every tick appended to tick_buffer is
\* eventually persisted: time and again everything appended so far is.
C26_PersistenceLiveness == []<>(TicksOf(persisted) = 1..appended)

\* A batch that was returned to the buffer after the last failed attempt has
\* since been persisted by the timer thread, with a tick buffered meanwhile.
C26_Witness ==
    /\ \E w \in SizeWorkers : workers[w].result = "returned"
    /\ workers[TimerWorker].result = "inserted"
    /\ workers[TimerWorker].pc = "sleep10"
    /\ appended > TICK_BATCH_SIZE
    /\ TicksOf(persisted) = 1..appended

C28_SizeTriggeredFlush ==
    [][messages' = messages + 1 =>
          IF NumTicks(tick_buffer') >= TICK_BATCH_SIZE
          THEN /\ DOMAIN workers' = DOMAIN workers \cup {Cardinality(DOMAIN workers)}
               /\ workers'[Cardinality(DOMAIN workers)].pc = "swap"
               /\ \A w \in DOMAIN workers : workers'[w] = workers[w]
          ELSE workers' = workers]_vars

\* A size-triggered flush thread has just been started on a buffer of
\* exactly TICK_BATCH_SIZE ticks while the timer thread sleeps.
C28_Witness ==
    /\ NumTicks(tick_buffer) = TICK_BATCH_SIZE
    /\ workers[TimerWorker].pc = "sleep10"
    /\ \E w \in SizeWorkers : workers[w].pc = "swap"

\* Whether a quote feed (t, p, v) of instrument k is dropped by the
\* comparison of lines 230-234 against the deduplication state lpt.
QuoteDropped(lpt, k, t, p, v) == SameAsPrev(lpt, k, safe_int(OrNow(t)), p, v)

\* Whether a chart snapshot of instrument k whose last bar is (t, p, v) is
\* dropped by the comparison of line 207 against the deduplication state lpt.
ChartDropped(lpt, k, t, p, v) == SameAsPrev(lpt, k, safe_int(SecondsToMs(t)), p, v)

\* C29: the deduplication state is kept per instrument and source class.  A
\* call that processes a chart-derived tick of an instrument leaves unchanged
\* whether any following quote tick of that instrument is dropped, and a call
\* that processes a quote tick leaves unchanged whether any following
\* chart-derived tick of that instrument is dropped.
C29_DedupPerSourceClass ==
    [][messages' = messages + 1 =>
          \A k \in DOMAIN sym_feeds' :
              IF sym_feeds'[k].source = "tv_chart_fallback"
              THEN \A t \in QuoteTimestamps, p \in TickPrices, v \in CumulativeVolumes :
                       QuoteDropped(last_processed_tick', k, t, p, v)
                           <=> QuoteDropped(last_processed_tick, k, t, p, v)
              ELSE \A t \in ChartSeconds, p \in TickPrices, v \in CumulativeVolumes :
                       ChartDropped(last_processed_tick', k, t, p, v)
                           <=> ChartDropped(last_processed_tick, k, t, p, v)]_vars

\* The index ticks on a candle-derived source that the call just made
\* produced with a computed delta of zero or less (lines 265-276).
HeartbeatTicks ==
    {k \in DOMAIN sym_feeds' :
        /\ is_index(k)
        /\ sym_feeds'[k].source = "tv_chart_fallback"
        /\ volume_delta(TRUE, safe_float(sym_feeds'[k].tv_volume),
                        prev_vol_of(latest_total_volumes,
                                    tracker_key(k, sym_feeds'[k].interval, TRUE))) <= 0}

\* C30: index heartbeat volume.  For an index instrument on a candle-derived
\* source, a tick whose computed delta is zero or negative gets delta 1 when
\* its timestamp is new relative to the previously processed tick of the
\* instrument, and delta 0 when it repeats that tick's timestamp.
C30_IndexHeartbeat ==
    [][messages' = messages + 1 =>
          \A k \in HeartbeatTicks :
              LET ts_ms == safe_int(SecondsToMs(message'.ohlcv[1]))
                  is_new == \/ k \notin DOMAIN last_processed_tick
                            \/ ts_ms # last_processed_tick[k].ts_ms
              IN  sym_feeds'[k].ltq = IF is_new THEN 1 ELSE 0]_vars

\* The finalized 1m bars of instrument k whose minute lies in the 5-minute
\* bucket that starts at start, as positions of candle_history[k].
BucketBars(k, start) ==
    IF k \notin DOMAIN candle_history THEN {}
    ELSE {i \in 1..Len(candle_history[k]) :
             /\ candle_history[k][i].timestamp >= start
             /\ candle_history[k][i].timestamp < start + 5}

RECURSIVE SumVolumes(_, _)
\* The sum of the volumes of the bars of candle_history[k] at the positions bars.
SumVolumes(k, bars) ==
    IF bars = {} THEN 0
    ELSE LET i == CHOOSE j \in bars : TRUE
         IN  candle_history[k][i].volume + SumVolumes(k, bars \ {i})

\* C31: each finalized 5-minute bar is the aggregate of the finalized
\* 1-minute bars of its bucket: its high is their highest high, its low their
\* lowest low, its close the close of the latest of them and its volume the
\* sum of their volumes, so that each of them is counted once.
C31_FiveMinuteAggregate ==
    \A k \in DOMAIN candle_history_5m :
        \A n \in 1..Len(candle_history_5m[k]) :
            LET c == candle_history_5m[k][n]
                bars == BucketBars(k, FloorFive(c.timestamp))
                latest == CHOOSE i \in bars : \A j \in bars : j <= i
            IN  /\ bars # {}
                /\ \A i \in bars : candle_history[k][i].high <= c.high
                /\ \E i \in bars : candle_history[k][i].high = c.high
                /\ \A i \in bars : candle_history[k][i].low >= c.low
                /\ \E i \in bars : candle_history[k][i].low = c.low
                /\ c.close = candle_history[k][latest].close
                /\ c.volume = SumVolumes(k, bars)

\* The provider unsubscribe calls of the call that has just returned.
UpstreamUnsubscribes(calls) == {i \in 1..Len(calls) : calls[i].op = "unsubscribe"}

\* Every key of room_subscribers has a consumer.
NoEmptyRoom == \A room \in DOMAIN room_subscribers : room_subscribers[room] # {}

\* C32: subscription garbage collection.  No key of room_subscribers has an
\* empty consumer set; a call that removes the last consumer of a room
\* deletes the key and issues one upstream unsubscribe for its instrument and
\* interval, and a call that removes nobody changes nothing and issues none.
C32_SubscriptionGc ==
    [][/\ NoEmptyRoom
       /\ last_sub_call'.op # None =>
             LET calls == last_sub_call'.calls
                 emptied == {room \in DOMAIN room_subscribers :
                                \/ room \notin DOMAIN room_subscribers'
                                \/ room_subscribers'[room] = {}}
             IN  /\ \A room \in DOMAIN room_subscribers' : room_subscribers'[room] # {}
                 /\ \A room \in emptied :
                        Cardinality({i \in UpstreamUnsubscribes(calls) :
                                        <<calls[i].key, calls[i].interval>> = room}) = 1
                 /\ \A i \in UpstreamUnsubscribes(calls) :
                        <<calls[i].key, calls[i].interval>> \in emptied
                 /\ room_subscribers' = room_subscribers
                        => UpstreamUnsubscribes(calls) = {}]_vars

\* The last consumer of a room has unsubscribed: the room is gone and its
\* upstream unsubscribe is the one call made.
C32_Witness ==
    /\ last_sub_call.op = "unsubscribe_instrument"
    /\ Len(last_sub_call.calls) = 1
    /\ last_sub_call.calls[1].op = "unsubscribe"
    /\ <<last_sub_call.calls[1].key, last_sub_call.calls[1].interval>>
           \notin DOMAIN room_subscribers
    /\ room_subscribers # EmptyDict

\* The move is more than the threshold: ATR * 1.2, or 5 points when the ATR
\* is 0 (the ATR being atr_sum / effective_period).
MoreThanThreshold(move, history) ==
    IF atr_sum(history) > 0
    THEN 5 * effective_period(history) * Abs(move) > 6 * atr_sum(history)
    ELSE Abs(move) > 5

\* C33: noise filter.  identify_swing of the strategy engine returns no swing
\* when neither the highest high nor the lowest low of the window deviates
\* from the window's opening price by more than the threshold, a deviation
\* equal to the threshold included.
C33_NoiseFilter ==
    (/\ swing_call.by = "StrategyEngine"
     /\ Len(swing_call.candles) >= SWING_WINDOW
     /\ LET last_n == TailOf(swing_call.candles, SWING_WINDOW)
        IN  /\ ~MoreThanThreshold(MaxHigh(last_n) - last_n[1].open, swing_call.candles)
            /\ ~MoreThanThreshold(MinLow(last_n) - last_n[1].open, swing_call.candles))
    => swing_call.type = None

\* The commission on a trade at price_x1000 / 1000: the turnover percentage
\* plus the flat charge, in money units.
CommissionOn(price_x1000, quantity) ==
    (price_x1000 * quantity * CommissionPerTenThousand * (MoneyScale \div 1000)) \div 10000
        + fixed_charge * MoneyScale

\* C34: realized PnL includes entry slippage.  The PnL recorded when a
\* position closes is the difference between the slippage-adjusted exit price
\* and the slippage-adjusted entry price stored on the opening trade, times
\* the quantity, net of the commission.
C34_PnlFromSlippedEntry ==
    [][(Len(trades') = Len(trades) + 1 /\ trades'[Len(trades')].side = "SELL") =>
          LET exit_trade == trades'[Len(trades')]
              pos == positions[exit_trade.index_name]
              opening == trades[pos.trade_id]
          IN  exit_trade.pnl =
                  (exit_trade.price_x1000 - opening.price_x1000) * pos.quantity
                          * (MoneyScale \div 1000)
                      - CommissionOn(exit_trade.price_x1000, pos.quantity)]_vars

\* C35: concurrent flush threads take disjoint batches.  No tick is held by
\* two flush threads at once, and a tick whose insert succeeded is persisted
\* once: it is in no batch and not in the buffer, so no thread and no later
\* flush inserts it again.
C35_DisjointBatches ==
    /\ \A w1, w2 \in DOMAIN workers :
           w1 # w2 => TicksOf(workers[w1].to_insert) \cap TicksOf(workers[w2].to_insert) = {}
    /\ \A w \in DOMAIN workers :
           NumTicks(workers[w].to_insert) = Cardinality(TicksOf(workers[w].to_insert))
    /\ NumTicks(persisted) = Cardinality(TicksOf(persisted))
    /\ TicksOf(persisted) \cap (HeldByWorkers \cup TicksOf(tick_buffer)) = {}

\* Two flush threads hold a batch each at once: the size-triggered thread
\* and the timer thread.
C35_Witness ==
    \E w \in SizeWorkers :
        /\ workers[w].to_insert # <<>>
        /\ workers[TimerWorker].to_insert # <<>>

\* Both provider threads have delivered the quote and returned.
BothDelivered == \A th \in FeedThreads : feed_threads[th].pc = "done"

\* The delta of the quote when it is processed once, after the earlier
\* message if there was one.
SingleDelta ==
    LET feed == feed_threads["provider_1"].feed[1]
        prev_vol == IF message.type = None THEN 0
                    ELSE safe_float(message.feeds[RaceInstrument].tv_volume)
    IN  safe_int(clamp_extreme(volume_delta(FALSE, safe_float(feed.tv_volume), prev_vol),
                               RaceInstrument))

\* C36: deduplication holds under concurrent delivery.  When two provider
\* threads have called on_message with the same quote of one instrument,
\* the quote being new, one copy of the tick has been appended to the buffer
\* and the volume tracker has advanced once: one thread appended, with the
\* delta of the quote, and the other skipped it.
C36_ConcurrentDedup ==
    (/\ BothDelivered
     /\ \E th \in FeedThreads : feed_threads[th].result = "appended")
    => /\ Cardinality({th \in FeedThreads : feed_threads[th].result = "appended"}) = 1
       /\ \A th \in FeedThreads :
              feed_threads[th].result = "appended" => feed_threads[th].ltq = SingleDelta

\* C37: state unchanged on a dropped message.  When on_message drops a
\* message with the feeds of several instruments because processing one
\* entry raised, last_processed_tick and latest_total_volumes are as they
\* were before the message.
C37_DroppedMessageLeavesState ==
    [][(/\ messages' = messages + 1
        /\ on_message_result'.fault = "feed"
        /\ on_message_result'.error
        /\ Cardinality(DOMAIN message'.feeds) > 1)
       => /\ last_processed_tick' = last_processed_tick
          /\ latest_total_volumes' = latest_total_volumes]_vars

\* The volume of the 1m candles of key: the finalized bars and the open bucket.
CandleVolumeTotal(history, buffers, key) ==
    LET bars == IF key \in DOMAIN history THEN history[key] ELSE << >>
        RECURSIVE Sum(_)
        Sum(n) == IF n = 0 THEN 0 ELSE bars[n].volume + Sum(n - 1)
    IN  Sum(Len(bars))
        + (IF <<"NIFTY", key>> \in DOMAIN buffers THEN buffers[<<"NIFTY", key>>].volume ELSE 0)

\* The call just made opened a 1m bucket for key: the first one, or the
\* next one after a finalized bar.
OpensBucket(key) ==
    /\ candle_ticks' = candle_ticks + 1
    /\ \/ <<"NIFTY", key>> \notin DOMAIN candle_buffers
       \/ candle_buffers'[<<"NIFTY", key>>].timestamp
              # candle_buffers[<<"NIFTY", key>>].timestamp

\* The bucket of key is flat: it has seen one price.
FlatBucket(key) ==
    LET buffer == candle_buffers'[<<"NIFTY", key>>]
    IN  buffer.open = buffer.close /\ buffer.high = buffer.close /\ buffer.low = buffer.close

\* C38: the tick that opens a 1m bucket contributes its price but not its
\* volume: the bucket starts flat at the tick's price with volume 0 and the
\* tick's volume is added to no candle, for every bucket.
C38_OpeningTickVolumeOmitted ==
    [][\A key \in CandleKeys :
          OpensBucket(key) =>
              /\ FlatBucket(key)
              /\ candle_buffers'[<<"NIFTY", key>>].volume = 0
              /\ CandleVolumeTotal(candle_history', candle_buffers', key)
                     = CandleVolumeTotal(candle_history, candle_buffers, key)]_vars

\* C38 amended: the tick that opens a 1m bucket after a finalized bar
\* contributes its price but not its volume: the bucket starts flat at the
\* tick's price with volume 0 and the volume of the candles of the
\* instrument is as before.  The tick that opens the first bucket of an
\* instrument is counted: that bucket starts flat with the tick's volume.
C38_OpeningTickVolume ==
    [][\A key \in CandleKeys :
          OpensBucket(key) =>
              /\ FlatBucket(key)
              /\ IF <<"NIFTY", key>> \in DOMAIN candle_buffers
                 THEN /\ candle_buffers'[<<"NIFTY", key>>].volume = 0
                      /\ CandleVolumeTotal(candle_history', candle_buffers', key)
                             = CandleVolumeTotal(candle_history, candle_buffers, key)
                 ELSE /\ candle_buffers'[<<"NIFTY", key>>].volume \in CandleVolumes
                      /\ candle_history' = candle_history]_vars

\* A second bucket is open with volume 0 next to a finalized bar that
\* carries volume.
C38_Witness ==
    \E key \in CandleKeys :
        /\ key \in DOMAIN candle_history
        /\ candle_history[key][1].volume > 0
        /\ candle_buffers[<<"NIFTY", key>>].volume = 0
        /\ candle_buffers[<<"NIFTY", key>>].timestamp > candle_history[key][1].timestamp

\* C39: a new position never inherits the trailing stop of a previous one.
\* At the moment a position is opened for the index, the stop the strategy
\* engine stores for the index is unset (None or 0), whatever opens, exit
\* evaluations and closes came before.
C39_NoInheritedTrailingStop ==
    [][("NIFTY" \notin DOMAIN positions /\ "NIFTY" \in DOMAIN positions') =>
          /\ trailing_sl \in {<< >>, <<0>>}
          /\ trailing_sl' \in {<< >>, <<0>>}]_vars

\* A second position is open after the first, whose stop had been set, was
\* closed by an exit evaluation.
C39_Witness ==
    /\ "NIFTY" \in DOMAIN positions
    /\ positions["NIFTY"].trade_id > 1
    /\ last_exit_check.closed
    /\ last_exit_check.prev_sl \notin {<< >>, <<0>>}

\* C40: every finalized 5-minute bar has a bucket-start timestamp on a
\* 5-minute boundary (minute % 5 = 0), and successive finalized 5-minute
\* bars of one instrument have strictly increasing bucket-starts.
C40_FiveMinuteAlignment ==
    \A key \in DOMAIN candle_history_5m :
        LET bars == candle_history_5m[key]
        IN  /\ \A i \in 1..Len(bars) : bars[i].timestamp % 5 = 0
            /\ \A i \in 1..(Len(bars) - 1) : bars[i].timestamp < bars[i + 1].timestamp

====
